---- MODULE Spec2Model ----
(***************************************************************************)
(* Pet lifecycle orchestrator (steps/python) over the file-backed pet      *)
(* store (steps/services/pet_store.py).                                    *)
(*                                                                         *)
(* The store is the JSON file .data/pets.json: `store` is its "pets" map.  *)
(* Every step handler runs to completion as one action; a handler's emits  *)
(* on a topic the orchestrator subscribes to are put in `inflight` and     *)
(* delivered later by Deliver.  The delayed task created by                *)
(* check_automatic_progressions is an element of `timers` until it runs.   *)
(* `last` records the most recent step: what it was given, the snapshot it *)
(* loaded, its outcome and what it emitted and scheduled.                  *)
(***************************************************************************)
EXTENDS Integers, Sequences, FiniteSets, TLC

VARIABLES store, inflight, timers, last, guardrun,
          jobs, frames, channel, persisted, subscriber, ncalls,
          storecalls, subscribers, queues, streams, published, lastunsub,
          workflows, wfchannel, waited, composite, band,
          chain, now, reaper, handling, scoring_queue

petvars == <<store, inflight, timers, last>>

\* A call of check_guards as a unit: the snapshot and guard list it is
\* given and what it returned.
guardvars == <<guardrun>>

\* The scoring jobs in Redis (key job:<id>), the calls in progress on the
\* WorkflowOrchestrator, what was published on scoring_workflow, the states
\* update_job_state wrote (in the order of the writes), the client of
\* /stream/scoring/{job_id}, and the number of calls made.
jobvars == <<jobs, frames, channel, persisted, subscriber, ncalls>>

\* The calls in progress on the pet store module, each in a process of its
\* own, with the copy of the file the call loaded.
storevars == <<storecalls>>

\* The SSEPublisher: self.subscribers, the asyncio queues it handed out,
\* the stream_updates generators with what each has yielded, the events
\* given to publish (in order), and the last call of unsubscribe.  The
\* workflows in Redis (key workflow:<id>) and what ScoringWorkflow
\* published on the Redis channels workflow_updates:<id>.
ssevars == <<subscribers, queues, streams, published, lastunsub,
             workflows, wfchannel>>

\* How many keepalive periods the client of /stream/scoring/{job_id} has
\* spent in pubsub.listen() since it last got a message.
streamvars == <<waited>>

\* A call of PTEScorer._calibrate_to_band: its argument and what it returned.
calibvars == <<composite, band>>

\* The transitions the orchestrator has applied since the start (chain);
\* the wall clock in days (now), the run of the deletion reaper (reaper) and
\* a run of the orchestrator's handler between its load of the pet and its
\* write of the status (handling); the RQ queue "scoring" (scoring_queue).
othervars == <<chain, now, reaper, handling, scoring_queue>>

auxvars == <<storevars, ssevars, streamvars, calibvars, othervars>>

vars == <<petvars, guardvars, jobvars, auxvars>>

\* ---------------------------------------------------------------- bounds
MaxClock == 1
MaxInflight == 1
MaxGuards == 2
MaxCalls == 2

\* ------------------------------------------------------------- constants
None == "None"

Statuses ==
    {"new", "in_quarantine", "healthy", "available", "pending", "adopted",
     "ill", "under_treatment", "recovered", "deleted"}

\* Pet ids are str(seq); seq starts at 1.
PetIds == {"1"}

Flags == {"needs_data"}

NoFlagAction == [action |-> None, flag |-> None]

TRANSITION_RULES ==
    << [from |-> {"new"}, to |-> "in_quarantine",
        event |-> "feeding.reminder.completed",
        guards |-> <<>>, flagAction |-> NoFlagAction],
       [from |-> {"in_quarantine"}, to |-> "healthy",
        event |-> "status.update.requested",
        guards |-> <<>>, flagAction |-> NoFlagAction],
       [from |-> {"healthy", "in_quarantine", "available"}, to |-> "ill",
        event |-> "status.update.requested",
        guards |-> <<>>, flagAction |-> NoFlagAction],
       [from |-> {"healthy"}, to |-> "available",
        event |-> "status.update.requested",
        guards |-> <<>>, flagAction |-> NoFlagAction],
       [from |-> {"ill"}, to |-> "under_treatment",
        event |-> "status.update.requested",
        guards |-> <<>>, flagAction |-> NoFlagAction],
       [from |-> {"under_treatment", "ill"}, to |-> "recovered",
        event |-> "status.update.requested",
        guards |-> <<>>, flagAction |-> NoFlagAction],
       [from |-> {"recovered", "new"}, to |-> "healthy",
        event |-> "status.update.requested",
        guards |-> <<>>, flagAction |-> NoFlagAction],
       [from |-> {"available"}, to |-> "pending",
        event |-> "status.update.requested",
        guards |-> <<>>, flagAction |-> NoFlagAction],
       [from |-> {"pending"}, to |-> "adopted",
        event |-> "status.update.requested",
        guards |-> <<>>, flagAction |-> NoFlagAction],
       [from |-> {"pending"}, to |-> "available",
        event |-> "status.update.requested",
        guards |-> <<>>, flagAction |-> NoFlagAction],
       [from |-> {"healthy", "in_quarantine"}, to |-> "ill",
        event |-> "health.treatment_required",
        guards |-> <<>>, flagAction |-> NoFlagAction],
       [from |-> {"healthy", "in_quarantine"}, to |-> "healthy",
        event |-> "health.no_treatment_needed",
        guards |-> <<>>, flagAction |-> NoFlagAction],
       [from |-> {"healthy"}, to |-> "healthy",
        event |-> "adoption.needs_data",
        guards |-> <<>>,
        flagAction |-> [action |-> "add", flag |-> "needs_data"]],
       [from |-> {"healthy"}, to |-> "available",
        event |-> "adoption.ready",
        guards |-> <<"no_needs_data_flag">>, flagAction |-> NoFlagAction] >>

\* The events the orchestrator's topics carry in data.event; a message
\* without an "event" field reads as None.
EventTypes ==
    {"feeding.reminder.completed", "status.update.requested",
     "health.treatment_required", "health.no_treatment_needed",
     "adoption.needs_data", "adoption.ready", None}

\* topic -> is the orchestrator subscribed to it
Subscribes ==
    {"py.feeding.reminder.completed", "py.pet.status.update.requested",
     "py.health.treatment_required", "py.health.no_treatment_needed",
     "py.adoption.needs_data", "py.adoption.ready"}

\* ------------------------------------------------------------ pet store
\* An absent optional time field (Pet is a TypedDict with total=False).
NoTime == -1

PetRecord(status, flags, updatedAt) ==
    [status |-> status, flags |-> flags, updatedAt |-> updatedAt]

\* What db['pets'].get(pid) gives for a missing id (Python None).
NoPet == PetRecord(None, {}, NoTime)

get(db, pid) == IF pid \in DOMAIN db THEN db[pid] ELSE NoPet

\* _now(): the readings int(time.time() * 1000) can give, none earlier than
\* a time already on file.
_now(db) ==
    {t \in 0..MaxClock : \A pid \in DOMAIN db : db[pid].updatedAt <= t}

\* update_status: None when the pet is missing, else the saved map
update_status(db, pid, status, t) ==
    IF get(db, pid) = NoPet THEN db
    ELSE [db EXCEPT ![pid] = [@ EXCEPT !.status = status, !.updatedAt = t]]

\* The module defines no add_flag (nor remove_flag): the attribute lookup
\* pet_store.add_flag raises AttributeError before anything is written.
add_flag(db, pid, flag) ==
    [raised |-> TRUE, error |-> "AttributeError", db |-> db]

\* update: None when the pet is missing; {**cur, **patch, updatedAt: now}.
\* patch.status is None when the patch has no 'status' key.
update(db, pid, patch, t) ==
    IF get(db, pid) = NoPet THEN db
    ELSE [db EXCEPT ![pid] =
            [@ EXCEPT !.status = IF patch.status # None THEN patch.status ELSE @,
                      !.updatedAt = t]]

soft_delete(db, pid, t) ==
    IF get(db, pid) = NoPet THEN db
    ELSE [db EXCEPT ![pid] = [@ EXCEPT !.status = "deleted", !.updatedAt = t]]

\* ------------------------------------------------------------- messages
\* One emitted message: the topic and the fields of its data the steps read.
Msg(topic, petId) ==
    [topic |-> topic, petId |-> petId, event |-> None,
     requestedStatus |-> None, automatic |-> FALSE,
     oldStatus |-> None, newStatus |-> None, reason |-> None]

\* What the orchestrator reads of a delivered message (input_data.get).
InputOf(m) ==
    [petId |-> m.petId, event |-> m.event,
     requestedStatus |-> m.requestedStatus, automatic |-> m.automatic]

\* The emitted messages that come back to the orchestrator.
Routed(emitted) ==
    {InputOf(emitted[i]) : i \in {j \in 1..Len(emitted) : emitted[j].topic \in Subscribes}}

\* --------------------------------------------------------- orchestrator
\* check_guards with every guard passing.
check_guards_AlwaysPass(pet, guards) == [passed |-> TRUE, reason |-> None]

\* check_guards going through the whole list: the last failure is returned.
check_guards_NoShortCircuit(pet, guards) ==
    LET Fails(k) ==
            IF guards[k] = "must_be_healthy" THEN pet.status # "healthy"
            ELSE IF guards[k] = "no_needs_data_flag" THEN "needs_data" \in pet.flags
            ELSE TRUE
        Reason(k) ==
            IF guards[k] = "must_be_healthy"
            THEN "Pet must be healthy (current: " \o pet.status \o ")"
            ELSE IF guards[k] = "no_needs_data_flag"
            THEN "Pet has needs_data flag blocking adoption"
            ELSE "Unknown guard: " \o guards[k]
        bad == {k \in 1..Len(guards) : Fails(k)}
    IN IF bad = {} THEN [passed |-> TRUE, reason |-> None]
       ELSE [passed |-> FALSE,
             reason |-> Reason(CHOOSE k \in bad : \A j \in bad : k >= j)]

RECURSIVE check_guards(_, _)
check_guards(pet, guards) ==
    IF guards = <<>> THEN [passed |-> TRUE, reason |-> None]
    ELSE LET guard == Head(guards) IN
         IF guard = "must_be_healthy"
         THEN IF pet.status # "healthy"
              THEN [passed |-> FALSE,
                    reason |-> "Pet must be healthy (current: " \o pet.status \o ")"]
              ELSE check_guards(pet, Tail(guards))
         ELSE IF guard = "no_needs_data_flag"
         THEN IF pet.flags # {} /\ "needs_data" \in pet.flags
              THEN [passed |-> FALSE,
                    reason |-> "Pet has needs_data flag blocking adoption"]
              ELSE check_guards(pet, Tail(guards))
         ELSE [passed |-> FALSE, reason |-> "Unknown guard: " \o guard]

\* RuleMatches with the requested status left out of the test.
RuleMatches_IgnoresRequested(r, pet, event_type, requested_status) ==
    r.event = event_type /\ pet.status \in r.from

\* RuleMatches with the pet's status left out of the test.
RuleMatches_AnyFrom(r, pet, event_type, requested_status) ==
    IF event_type = "status.update.requested" /\ requested_status # None
    THEN r.event = event_type /\ r.to = requested_status
    ELSE r.event = event_type

\* The test of the rule loops: with a requested status the target must equal it.
RuleMatches(r, pet, event_type, requested_status) ==
    IF event_type = "status.update.requested" /\ requested_status # None
    THEN r.event = event_type /\ pet.status \in r.from /\ r.to = requested_status
    ELSE r.event = event_type /\ pet.status \in r.from

\* SelectRule without the break: the last matching rule wins.
SelectRule_Last(pet, event_type, requested_status) ==
    LET hits == {i \in 1..Len(TRANSITION_RULES) :
                    RuleMatches(TRANSITION_RULES[i], pet, event_type, requested_status)}
    IN IF hits = {} THEN 0
       ELSE CHOOSE i \in hits : \A j \in hits : i >= j

\* Index of the first rule the loop stops at (break), 0 when rule stays None.
SelectRule(pet, event_type, requested_status) ==
    LET hits == {i \in 1..Len(TRANSITION_RULES) :
                    RuleMatches(TRANSITION_RULES[i], pet, event_type, requested_status)}
    IN IF hits = {} THEN 0
       ELSE CHOOSE i \in hits : \A j \in hits : i <= j

NoRuleReason(pet, event_type, requested_status) ==
    IF event_type = "status.update.requested"
    THEN "Invalid transition: cannot change from " \o pet.status \o " to " \o requested_status
    ELSE "No transition rule found for " \o event_type \o " from " \o pet.status

\* The names a function of the orchestrator module finds at module level:
\* its imports.  time is imported inside handler and is a local of handler.
ModuleNames == {"sys", "os", "pet_store"}

\* The branch of emit_next_action_events for the status change: its topic.
NextActionTopic(new_status, old_status) ==
    IF new_status = "under_treatment" /\ old_status = "ill"
    THEN "py.treatment.required"
    ELSE IF new_status = "available" /\ old_status = "healthy"
    THEN "py.adoption.ready"
    ELSE IF new_status = "recovered" /\ old_status = "under_treatment"
    THEN "py.treatment.completed"
    ELSE IF new_status = "healthy" /\ old_status = "recovered"
    THEN "py.health.restored"
    ELSE None

\* emit_next_action_events: every branch builds its data with
\* int(time.time() * 1000) before it calls emit; with time not in scope
\* that raises NameError, which the function's except clause logs.
emit_next_action_events(pet_id, new_status, old_status) ==
    LET topic == NextActionTopic(new_status, old_status) IN
    IF topic = None \/ "time" \notin ModuleNames THEN << >>
    ELSE << Msg(topic, pet_id) >>

\* automatic_progressions with recovered going on to available.
automatic_progressions_RecoveredAvailable ==
    [healthy |-> "available", ill |-> "under_treatment", recovered |-> "available"]

\* automatic_progressions with an entry for under_treatment.
automatic_progressions_TreatmentRecovers ==
    [healthy |-> "available", ill |-> "under_treatment", recovered |-> "healthy",
     under_treatment |-> "recovered"]

\* automatic_progressions without the entry for ill.
automatic_progressions_NoIll ==
    [healthy |-> "available", recovered |-> "healthy"]

automatic_progressions ==
    [healthy |-> "available", ill |-> "under_treatment", recovered |-> "healthy"]

\* The delayed tasks check_automatic_progressions creates (asyncio.create_task).
check_automatic_progressions(pet_id, current_status) ==
    IF current_status \in DOMAIN automatic_progressions
    THEN {[petId |-> pet_id, current_status |-> current_status,
           to |-> automatic_progressions[current_status]]}
    ELSE {}

Result(outcome, rule, reason, db, emitted, scheduled, checked) ==
    [outcome |-> outcome, rule |-> rule, reason |-> reason, store |-> db,
     emitted |-> emitted, scheduled |-> scheduled, checked |-> checked]

RejectedMsg(pet_id, pet, requested_status, event_type, reason) ==
    [Msg("py.lifecycle.transition.rejected", pet_id) EXCEPT
        !.oldStatus = pet.status, !.requestedStatus = requested_status,
        !.event = event_type, !.reason = reason]

CompletedMsg(pet_id, old_status, new_status, event_type) ==
    [Msg("py.lifecycle.transition.completed", pet_id) EXCEPT
        !.oldStatus = old_status, !.newStatus = new_status, !.event = event_type]

\* ApplyTransition without the test of what update_status returned.
ApplyTransition_NoCheck(db, pet_id, pet, rule_i, event_type, t) ==
    LET rule == TRANSITION_RULES[rule_i]
        old_status == pet.status
        db1 == update_status(db, pet_id, rule.to, t)
        flagged == IF rule.flagAction.action = "add"
                   THEN add_flag(db1, pet_id, rule.flagAction.flag)
                   ELSE [raised |-> FALSE, error |-> None, db |-> db1]
    IN IF flagged.raised
       THEN Result("error", rule_i, flagged.error, flagged.db, << >>, {}, FALSE)
       ELSE Result("applied", rule_i, None, flagged.db,
                   << CompletedMsg(pet_id, old_status, rule.to, event_type) >>
                      \o emit_next_action_events(pet_id, rule.to, old_status),
                   check_automatic_progressions(pet_id, rule.to), TRUE)

\* The part of handler after the idempotency check, for the pet as it was
\* loaded and the file db as it is now: persist the status (update_status
\* returns None for a pet that is gone, and the handler returns), apply the
\* flag action, then notify and schedule.  An exception raised on the way
\* is caught by the handler's except clause, which only logs.
ApplyTransition(db, pet_id, pet, rule_i, event_type, t) ==
    LET rule == TRANSITION_RULES[rule_i]
        old_status == pet.status
        updated_pet == get(update_status(db, pet_id, rule.to, t), pet_id)
        db1 == update_status(db, pet_id, rule.to, t)
        flagged == IF rule.flagAction.action = "add"
                   THEN add_flag(db1, pet_id, rule.flagAction.flag)
                   ELSE [raised |-> FALSE, error |-> None, db |-> db1]
    IN IF updated_pet = NoPet
       THEN Result("not_persisted", rule_i, None, db, << >>, {}, FALSE)
       ELSE IF flagged.raised
       THEN Result("error", rule_i, flagged.error, flagged.db, << >>, {}, FALSE)
       ELSE Result("applied", rule_i, None, flagged.db,
                   << CompletedMsg(pet_id, old_status, rule.to, event_type) >>
                      \o emit_next_action_events(pet_id, rule.to, old_status),
                   check_automatic_progressions(pet_id, rule.to), TRUE)

\* AlreadyInTarget with the check left out.
AlreadyInTarget_Never(pet, rule) == FALSE

\* The idempotency check: already in the target status and no flag action.
AlreadyInTarget(pet, rule) ==
    pet.status = rule.to /\ rule.flagAction = NoFlagAction

\* handler of PyPetLifecycleOrchestrator on one delivered message at time t.
LifecycleHandler(db, input_data, t) ==
    LET pet_id == input_data.petId
        event_type == input_data.event
        requested_status == input_data.requestedStatus
        pet == get(db, pet_id)
    IN IF pet = NoPet
       THEN Result("not_found", 0, None, db, << >>, {}, FALSE)
       ELSE LET rule_i == SelectRule(pet, event_type, requested_status) IN
            IF rule_i = 0
            THEN LET reason == NoRuleReason(pet, event_type, requested_status) IN
                 Result("rejected", 0, reason, db,
                        << RejectedMsg(pet_id, pet, requested_status, event_type, reason) >>,
                        {}, FALSE)
            ELSE LET rule == TRANSITION_RULES[rule_i]
                     guard_result == IF rule.guards # << >>
                                     THEN check_guards(pet, rule.guards)
                                     ELSE [passed |-> TRUE, reason |-> None]
                 IN IF ~guard_result.passed
                    THEN LET reason == "Guard check failed: " \o guard_result.reason IN
                         Result("rejected", rule_i, reason, db,
                                << RejectedMsg(pet_id, pet, rule.to, event_type, reason) >>,
                                {}, FALSE)
                    ELSE IF AlreadyInTarget(pet, rule)
                    THEN Result("noop", rule_i, None, db, << >>, {}, FALSE)
                    ELSE ApplyTransition(db, pet_id, pet, rule_i, event_type, t)

\* ---------------------------------------------------------------- steps
NoInput == [petId |-> None, event |-> None, requestedStatus |-> None, automatic |-> FALSE]

\* The record of one step: the message or request it was given, the pet as
\* it loaded it (pre), its outcome, the rule it selected (0: none), what it
\* emitted, the delayed tasks it created and whether it called
\* check_automatic_progressions.  replayOf is the outcome of the step before
\* when that step was the orchestrator handling this very message, else None;
\* expected is the status a delayed task waits for.
Step(op, input, pre, outcome, rule, reason, emitted, scheduled, checked) ==
    [op |-> op, input |-> input, pre |-> pre, outcome |-> outcome, rule |-> rule,
     reason |-> reason, emitted |-> emitted, scheduled |-> scheduled,
     checked |-> checked, replayOf |-> None, expected |-> None]

Idle(op) == Step(op, NoInput, NoPet, None, 0, None, << >>, {}, FALSE)

\* The pets file as it is found at start: create_pet_step cannot add to it
\* (it passes weight_kg/symptoms, which create does not take), so the pets
\* are those already in .data/pets.json, in any status, with or without flags.
InitialPets ==
    {PetRecord(st, fl, 0) : st \in Statuses, fl \in SUBSET Flags}

\* ------------------------------------------------------- scoring jobs
ScoringState == {"pending", "processing", "scored", "enriched", "completed", "failed"}

JobIds == {"j1"}

\* Two callers of the orchestrator that run at the same time (API request
\* threads, RQ workers).
Procs == {"p1", "p2"}

JobRecord(state, steps_completed, results, errors) ==
    [state |-> state, steps_completed |-> steps_completed,
     results |-> results, errors |-> errors]

\* get_job_status returns None for a key that is not there.
NoJob == JobRecord(None, << >>, {}, 0)

get_job_status(db, job_id) == IF job_id \in DOMAIN db THEN db[job_id] ELSE NoJob

\* conn.setex(f"job:{job_id}", ..., json.dumps(job))
setex(db, job_id, job) ==
    [k \in DOMAIN db \cup {job_id} |-> IF k = job_id THEN job ELSE db[k]]

\* allowed with a way out of completed.
allowed_CompletedReopens ==
    [pending |-> {"processing", "failed"},
     processing |-> {"scored", "failed"},
     scored |-> {"enriched", "completed"},
     enriched |-> {"completed", "failed"},
     completed |-> {"processing"},
     failed |-> {}]

allowed ==
    [pending |-> {"processing", "failed"},
     processing |-> {"scored", "failed"},
     scored |-> {"enriched", "completed"},
     enriched |-> {"completed", "failed"},
     completed |-> {},
     failed |-> {}]

Event(type, job_id, state) == [type |-> type, job_id |-> job_id, state |-> state]

\* The frame of a call: the method a process called (op), where it is in
\* it (pc) and, inside process_job, which of its calls is running (ppc);
\* the arguments, the job as loaded and modified locally, how the call
\* ended, the state it found first, and how many writes and publishes it made.
Frame(op, pc, job_id, state) ==
    [op |-> op, pc |-> pc, ppc |-> None, job_id |-> job_id, state |-> state,
     step_name |-> None, job |-> NoJob, outcome |-> None, seen |-> None,
     wrote |-> 0, pubs |-> 0]

IdleFrame == Frame("idle", "idle", None, None)

NoSubscriber == [connected |-> FALSE, job_id |-> None, from |-> 0]

\* Nothing is going on at the scoring service.
JobsIdle ==
    /\ jobs = << >>
    /\ frames = [p \in Procs |-> IdleFrame]
    /\ channel = << >>
    /\ persisted = << >>
    /\ subscriber = NoSubscriber
    /\ ncalls = 0

\* No call of check_guards has been made.
NoGuardRun ==
    [pet |-> NoPet, guards |-> << >>, loaded |-> FALSE, ran |-> FALSE,
     result |-> [passed |-> FALSE, reason |-> None]]

\* ------------------------------------- pet store calls in processes
\* Two step handlers run at the same time, each in its own process.
StoreProcs == {"q1", "q2"}

\* A call of a pet_store function: where it is (pc), its arguments, the db
\* it loaded and what it returned.
StoreCall(pc, pid, status) ==
    [pc |-> pc, pid |-> pid, status |-> status, db |-> << >>, returned |-> None]

NoStoreCall == StoreCall("idle", None, None)

\* ------------------------------------------------------ SSE publisher
\* The clients of /workflow/{workflow_id}/stream; the queue subscribe makes
\* for a client's generator is named after the client.
Streams == {"s1", "s2"}

WorkflowIds == {"w1", "w2"}

\* A stream_updates generator: not started, waiting in its loop or ended;
\* its workflow id; what it yielded (the data lines and the first
\* MaxKeepalives keepalives; of the later keepalives, whether their number
\* is odd); how much had been published and updated when it subscribed.
Stream(pc, workflow_id, from, since) ==
    [pc |-> pc, workflow_id |-> workflow_id, out |-> << >>, odd |-> FALSE,
     from |-> from, since |-> since]

NewStream == Stream("new", None, 0, 0)

NoUnsubscribe ==
    [workflow_id |-> None, queue |-> None, present |-> FALSE,
     raised |-> None, changed |-> FALSE]

\* None of the further components is in use.
StoreIdle == storecalls = [p \in StoreProcs |-> NoStoreCall]

SseIdle ==
    /\ subscribers = << >>
    /\ queues = << >>
    /\ streams = [s \in Streams |-> NewStream]
    /\ published = << >>
    /\ lastunsub = NoUnsubscribe
    /\ workflows = << >>
    /\ wfchannel = << >>

CalibIdle == composite = 0 /\ band = << >>

\* No reaper run.  A run keeps the time of its scan, the file as the scan
\* found it, the pets still to remove, its count and the purgedCount it
\* reported in py.reaper.completed.
NoReaper ==
    [pc |-> "idle", scanned_at |-> 0, found |-> << >>, pets_to_reap |-> << >>,
     purged_count |-> 0, purgedCount |-> None]

\* No handler run is between its load and its write.
NoHandling == [pc |-> "idle", input_data |-> NoInput, pet |-> NoPet, rule |-> 0]

OthersIdle ==
    /\ chain = << >>
    /\ now = 0
    /\ reaper = NoReaper
    /\ handling = NoHandling
    /\ scoring_queue = << >>

AuxIdle == StoreIdle /\ SseIdle /\ waited = 0 /\ CalibIdle /\ OthersIdle

\* Nothing is going on at the pet steps.
PetsIdle ==
    /\ inflight = {}
    /\ timers = {}
    /\ last = Idle("idle")
    /\ guardrun = NoGuardRun

\* ensure_file starts the file with no pets; otherwise the pets are on file.
Init ==
    /\ \E ids \in SUBSET PetIds : store \in [ids -> InitialPets]
    /\ inflight = {}
    /\ timers = {}
    /\ last = Idle("idle")
    /\ guardrun = NoGuardRun
    /\ JobsIdle
    /\ AuxIdle

\* PyPetLifecycleOrchestrator runs its handler on input_data; rest is the
\* queue the run leaves behind, to which its own routed emits are added.
Orchestrate(input_data, rest) ==
    \E r \in {LifecycleHandler(store, input_data, t) : t \in _now(store)} :
       \E queue \in {rest \cup Routed(r.emitted)} :
          /\ Cardinality(queue) <= MaxInflight
          /\ store' = r.store
          /\ inflight' = queue
          /\ timers' = timers \cup r.scheduled
          /\ last' = [Step("lifecycle", input_data, get(store, input_data.petId),
                           r.outcome, r.rule, r.reason, r.emitted, r.scheduled,
                           r.checked)
                      EXCEPT !.replayOf =
                          IF last.op = "lifecycle" /\ last.input = input_data
                          THEN last.outcome ELSE None]

\* A queued message is delivered to the orchestrator.  Delivery is at
\* least once: without the acknowledgement the message stays queued and is
\* delivered again.
Deliver(input_data, ack) ==
    /\ input_data \in inflight
    /\ Orchestrate(input_data, IF ack THEN inflight \ {input_data} ELSE inflight)

\* A message is published on one of the orchestrator's topics by a step that
\* is not modelled here (the review agents, a staff request).
SubmitEvent(pid, event_type, requested_status) ==
    /\ Cardinality(inflight) < MaxInflight
    /\ inflight' = inflight \cup
          {[petId |-> pid, event |-> event_type,
            requestedStatus |-> requested_status, automatic |-> FALSE]}
    /\ last' = Idle("idle")
    /\ UNCHANGED <<store, timers>>

\* StillCurrent without the comparison of the status.
StillCurrent_AnyStatus(fresh_pet, current_status) == fresh_pet # NoPet

\* The re-check of delayed_emit: the pet is still there, in the status that
\* scheduled the progression.
StillCurrent(fresh_pet, current_status) ==
    fresh_pet # NoPet /\ fresh_pet.status = current_status

\* delayed_emit: the task created by check_automatic_progressions runs.
DelayedEmit(task) ==
    /\ task \in timers
    /\ Cardinality(inflight) < MaxInflight
    /\ LET fresh_pet == get(store, task.petId)
           fire == StillCurrent(fresh_pet, task.current_status)
           emitted == IF fire
                      THEN << [Msg("py.pet.status.update.requested", task.petId) EXCEPT
                                  !.event = "status.update.requested",
                                  !.requestedStatus = task.to,
                                  !.oldStatus = fresh_pet.status,
                                  !.automatic = TRUE] >>
                      ELSE << >>
       IN /\ inflight' = inflight \cup Routed(emitted)
          /\ last' = [Step("delayed_emit",
                           [NoInput EXCEPT !.petId = task.petId,
                                           !.requestedStatus = task.to],
                           fresh_pet, IF fire THEN "emitted" ELSE "skipped", 0,
                           None, emitted, {}, FALSE)
                      EXCEPT !.expected = task.current_status]
    /\ timers' = timers \ {task}
    /\ UNCHANGED store

\* PySetNextFeedingReminder: the job writes notes, nextFeedingAt and the status.
FeedingReminder(pid) ==
    /\ Cardinality(inflight) < MaxInflight
    /\ \E t \in _now(store) :
       LET pre == get(store, pid)
           db1 == update(store, pid, [status |-> "in_quarantine"], t)
           emitted == IF pre = NoPet THEN << >>
                      ELSE << [Msg("py.feeding.reminder.completed", pid) EXCEPT
                                  !.event = "feeding.reminder.completed"] >>
       IN /\ store' = db1
          /\ inflight' = inflight \cup Routed(emitted)
          /\ last' = Step("feeding_reminder", [NoInput EXCEPT !.petId = pid], NoPet,
                          IF pre = NoPet THEN "not_found" ELSE "updated", 0, None,
                          emitted, {}, FALSE)
    /\ UNCHANGED timers

\* StatusChangeRequested with the test left out.
StatusChangeRequested_Never(b, current_pet) == FALSE

\* The body names a status and it is not the pet's current one.
StatusChangeRequested(b, current_pet) ==
    b.status # None /\ b.status # current_pet.status

\* The patch of the non-status path: the body's name, species, ageMonths,
\* notes and nextFeedingAt as far as they are given; it has no status key.
PatchOf(b) == [status |-> None, notes |-> b.notes]

\* PyUpdatePet: PUT /py/pets/:id with body b (b.status None: no status given).
UpdatePet(pid, b) ==
    /\ Cardinality(inflight) < MaxInflight
    /\ LET current_pet == get(store, pid)
           asks == StatusChangeRequested(b, current_pet)
           emitted == IF current_pet # NoPet /\ asks /\ b.status \in Statuses
                      THEN << [Msg("py.pet.status.update.requested", pid) EXCEPT
                                  !.event = "status.update.requested",
                                  !.requestedStatus = b.status,
                                  !.oldStatus = current_pet.status] >>
                      ELSE << >>
           code == IF current_pet = NoPet THEN "404"
                   ELSE IF asks THEN (IF b.status \in Statuses THEN "202" ELSE "400")
                   ELSE "200"
       IN /\ IF code = "200"
             THEN \E t \in _now(store) :
                     store' = update(store, pid, PatchOf(b), t)
             ELSE store' = store
          /\ inflight' = inflight \cup Routed(emitted)
          /\ last' = Step("update_pet", [NoInput EXCEPT !.petId = pid], NoPet,
                          code, 0, None, emitted, {}, FALSE)
    /\ UNCHANGED timers

\* PyDeletePet: DELETE /py/pets/:id
DeletePet(pid) ==
    /\ \E t \in _now(store) :
       LET pre == get(store, pid) IN
          /\ store' = soft_delete(store, pid, t)
          /\ last' = Step("delete_pet", [NoInput EXCEPT !.petId = pid], NoPet,
                          IF pre = NoPet THEN "404" ELSE "202", 0, None,
                          IF pre = NoPet THEN << >>
                          ELSE << Msg("py.pet.soft.deleted", pid) >>, {}, FALSE)
    /\ UNCHANGED <<inflight, timers>>

UpdateBodies == [status : Statuses \cup {None, "sleeping"}, notes : {None, "fed"}]

\* The record of the last step has been read off.
Quiet == last = Idle("idle")

\* The record of the last step is read off; nothing of the program changes.
Observe ==
    /\ ~Quiet
    /\ last' = Idle("idle")
    /\ UNCHANGED <<store, inflight, timers>>

\* The message the orchestrator has just handled is delivered to it again
\* before anything else happens.
Redeliver(input_data, ack) ==
    /\ last.op = "lifecycle"
    /\ last.input = input_data
    /\ Deliver(input_data, ack)

\* Any step may follow any other; a step's record is read off (Observe)
\* before the next one starts, except for an immediate redelivery.
Next ==
    \/ Observe /\ UNCHANGED <<guardvars, jobvars, auxvars>>
    \/ \E input_data \in inflight, ack \in BOOLEAN :
          Redeliver(input_data, ack) /\ UNCHANGED <<guardvars, jobvars, auxvars>>
    \/ \E pid \in PetIds, e \in EventTypes, r \in Statuses \cup {None} :
          /\ Quiet
          /\ e # "status.update.requested" => r = None
          /\ SubmitEvent(pid, e, r)
          /\ UNCHANGED <<guardvars, jobvars, auxvars>>
    \/ \E input_data \in inflight, ack \in BOOLEAN :
          Quiet /\ Deliver(input_data, ack) /\ UNCHANGED <<guardvars, jobvars, auxvars>>
    \/ \E task \in timers : Quiet /\ DelayedEmit(task) /\ UNCHANGED <<guardvars, jobvars, auxvars>>
    \/ \E pid \in PetIds : Quiet /\ FeedingReminder(pid) /\ UNCHANGED <<guardvars, jobvars, auxvars>>
    \/ \E pid \in PetIds, b \in UpdateBodies :
          Quiet /\ UpdatePet(pid, b) /\ UNCHANGED <<guardvars, jobvars, auxvars>>
    \/ \E pid \in PetIds : Quiet /\ DeletePet(pid) /\ UNCHANGED <<guardvars, jobvars, auxvars>>

Spec == Init /\ [][Next]_vars

\* ------------------------------------- the orchestrator left to itself
\* One message for a pet is queued at the start and no other step writes
\* the store or publishes: the orchestrator's handler and the delayed
\* tasks it creates are the only steps.  `chain` lists the transitions the
\* handler applied, in order.
ExternalInputs ==
    {[petId |-> pid, event |-> e, requestedStatus |-> r, automatic |-> FALSE] :
        pid \in PetIds, e \in EventTypes, r \in Statuses \cup {None}}

AutoInit ==
    /\ \E ids \in SUBSET PetIds : store \in [ids -> InitialPets]
    /\ \E input_data \in ExternalInputs :
          /\ input_data.event # "status.update.requested"
                => input_data.requestedStatus = None
          /\ inflight = {input_data}
    /\ timers = {}
    /\ last = Idle("idle")
    /\ guardrun = NoGuardRun
    /\ JobsIdle
    /\ AuxIdle

\* The handler runs on a queued message; an applied transition is added to
\* the chain.  The message queued at the start is delivered once (a second
\* delivery of it would be one more event from outside); the messages of
\* the delayed tasks are delivered at least once.
AutoDeliver(input_data, ack) ==
    /\ ack \/ input_data.automatic
    /\ Deliver(input_data, ack)
    /\ chain' = IF last'.outcome = "applied"
                THEN Append(chain, [event |-> input_data.event,
                                    from |-> last'.pre.status,
                                    to |-> TRANSITION_RULES[last'.rule].to,
                                    automatic |-> input_data.automatic])
                ELSE chain
    /\ UNCHANGED <<guardvars, jobvars, storevars, ssevars, streamvars, calibvars,
                   now, reaper, handling, scoring_queue>>

AutoDelayedEmit(task) ==
    /\ DelayedEmit(task)
    /\ UNCHANGED <<guardvars, jobvars, auxvars>>

AutoNext ==
    \/ \E input_data \in inflight, ack \in BOOLEAN : AutoDeliver(input_data, ack)
    \/ \E task \in timers : AutoDelayedEmit(task)

AutoSpec == AutoInit /\ [][AutoNext]_vars

\* The event system delivers a queued message and gets the acknowledgement
\* in the end; the event loop runs a task it was given.
AutoLiveSpec ==
    /\ AutoSpec
    /\ WF_vars(\E input_data \in inflight : AutoDeliver(input_data, TRUE))
    /\ WF_vars(\E task \in timers : AutoDelayedEmit(task))

\* ------------------------------------------------- check_guards as a unit
\* The guard names check_guards knows, and one it does not.
GuardNames == {"must_be_healthy", "no_needs_data_flag", "has_owner"}

GuardLists == UNION {[1..n -> GuardNames] : n \in 0..MaxGuards}

\* The handler loads the pet it will pass to check_guards.
LoadSnapshot(pid) ==
    /\ ~guardrun.loaded
    /\ get(store, pid) # NoPet
    /\ guardrun' = [guardrun EXCEPT !.pet = get(store, pid), !.loaded = TRUE]
    /\ UNCHANGED <<petvars, jobvars, auxvars>>

\* Another step writes the pet's status after the snapshot was loaded.
StatusWrite(pid, status) ==
    /\ guardrun.loaded /\ ~guardrun.ran
    /\ get(store, pid) # NoPet
    /\ \E t \in _now(store) : store' = update_status(store, pid, status, t)
    /\ UNCHANGED <<inflight, timers, last, guardrun, jobvars, auxvars>>

\* check_guards(pet, guards) on the snapshot.
CheckGuards(guards) ==
    /\ guardrun.loaded /\ ~guardrun.ran
    /\ guardrun' = [guardrun EXCEPT !.guards = guards, !.ran = TRUE,
                                    !.result = check_guards(guardrun.pet, guards)]
    /\ UNCHANGED <<petvars, jobvars, auxvars>>

GuardInit ==
    /\ store \in [PetIds -> InitialPets]
    /\ inflight = {}
    /\ timers = {}
    /\ last = Idle("idle")
    /\ guardrun = NoGuardRun
    /\ JobsIdle
    /\ AuxIdle

GuardNext ==
    \/ \E pid \in PetIds : LoadSnapshot(pid)
    \/ \E pid \in PetIds, status \in Statuses : StatusWrite(pid, status)
    \/ \E guards \in GuardLists : CheckGuards(guards)

GuardSpec == GuardInit /\ [][GuardNext]_vars

\* ------------------------------------------- WorkflowOrchestrator calls
\* Every Redis command (get, setex, publish) is one step of the caller;
\* between them the other process may run.

\* A call made by process_job: it is remembered which one (ppc).
SubCall(f, ppc, pc, state, step_name) ==
    [f EXCEPT !.ppc = ppc, !.pc = pc, !.state = state,
              !.step_name = step_name, !.job = NoJob]

\* The call is over: its locals are gone, how it ended is kept.
Done(f, outcome) ==
    [f EXCEPT !.pc = "done", !.outcome = outcome, !.ppc = None,
              !.step_name = None, !.job = NoJob]

SetSeen(f, state) == IF f.seen = None THEN [f EXCEPT !.seen = state] ELSE f

\* The orchestrator method returns: to its caller, into the enqueue
\* endpoint, which goes on to enqueue, or into process_job, which goes on
\* after the call it made.
Returned(f) ==
    IF f.op = "enqueue_job_to_worker" THEN [f EXCEPT !.pc = "q_enqueue"]
    ELSE IF f.op # "process_job" THEN Done(f, "returned")
    ELSE CASE f.ppc = "p_scored" -> [f EXCEPT !.pc = "p_ai"]
           [] f.ppc = "p_enrich" -> SubCall(f, "p_enriched", "t_get", "enriched", None)
           [] f.ppc \in {"p_enriched", "p_ai_err"}
                 -> SubCall(f, "p_completed", "t_get", "completed", None)
           [] f.ppc = "p_completed" -> Done(f, "returned")
           [] f.ppc = "p_fail_rec" -> SubCall(f, "p_failed", "t_get", "failed", None)
           [] f.ppc = "p_failed" -> Done(f, "error_result")

\* The orchestrator method raises: out of the call, or into the except
\* clauses of process_job (the inner one around the enrichment, the outer
\* one around everything; an exception in the outer handler leaves
\* process_job).
Raised(f, error) ==
    IF f.op # "process_job" THEN Done(f, error)
    ELSE CASE f.ppc \in {"p_enrich", "p_enriched"}
                 -> SubCall(f, "p_ai_err", "r_get", None, None)
           [] f.ppc \in {"p_scored", "p_ai_err", "p_completed"}
                 -> SubCall(f, "p_fail_rec", "r_get", None, None)
           [] f.ppc \in {"p_fail_rec", "p_failed"} -> Done(f, error)

\* conn.publish on scoring_workflow succeeds or raises.
_publish_event(p, f, event) ==
    \E ok \in BOOLEAN :
       IF ok
       THEN /\ channel' = Append(channel, event)
            /\ frames' = [frames EXCEPT ![p] = Returned([f EXCEPT !.pubs = @ + 1])]
       ELSE /\ channel' = channel
            /\ frames' = [frames EXCEPT ![p] = Raised(f, "ConnectionError")]

\* create_scoring_job with the event published before the job is stored.
create_scoring_job_PublishFirst(p) ==
    LET f == frames[p] IN
    \/ /\ f.pc = "c_set"
       /\ channel' = Append(channel, Event("job_created", f.job_id, "pending"))
       /\ frames' = [frames EXCEPT ![p] = [f EXCEPT !.pc = "c_pub", !.pubs = @ + 1]]
       /\ UNCHANGED <<jobs, persisted>>
    \/ /\ f.pc = "c_pub"
       /\ jobs' = setex(jobs, f.job_id, JobRecord("pending", << >>, {}, 0))
       /\ frames' = [frames EXCEPT ![p] = Returned([f EXCEPT !.wrote = @ + 1])]
       /\ UNCHANGED <<channel, persisted>>

\* create_scoring_job: store the pending job, then publish job_created.
create_scoring_job(p) ==
    LET f == frames[p] IN
    \/ /\ f.pc = "c_set"
       /\ jobs' = setex(jobs, f.job_id, JobRecord("pending", << >>, {}, 0))
       /\ frames' = [frames EXCEPT ![p] = [f EXCEPT !.pc = "c_pub", !.wrote = @ + 1]]
       /\ UNCHANGED <<channel, persisted>>
    \/ /\ f.pc = "c_pub"
       /\ _publish_event(p, f, Event("job_created", f.job_id, "pending"))
       /\ UNCHANGED <<jobs, persisted>>

\* transition_job up to its call of update_job_state.
transition_job(p) ==
    LET f == frames[p]
        job == get_job_status(jobs, f.job_id)
    IN /\ f.pc = "t_get"
       /\ frames' = [frames EXCEPT ![p] =
             IF job = NoJob THEN Raised(f, "ValueError")
             ELSE IF f.state \notin allowed[job.state]
             THEN Raised(SetSeen(f, job.state), "ValueError")
             ELSE [SetSeen(f, job.state) EXCEPT !.pc = "u_get"]]
       /\ UNCHANGED <<jobs, channel, persisted>>

\* The copy update_job_state is about to save: the new state, the step.
Changed(f, job) ==
    [job EXCEPT
       !.state = f.state,
       !.steps_completed = IF f.step_name # None THEN Append(@, f.step_name) ELSE @,
       !.results = IF f.step_name # None THEN @ \cup {f.step_name} ELSE @]

\* LoadForUpdate without the test for a job that is not there.
LoadForUpdate_NoCheck(f, job) ==
    [SetSeen(f, job.state) EXCEPT !.pc = "u_set", !.job = Changed(f, job)]

\* The head of update_job_state: the job is loaded and changed locally, or
\* ValueError is raised for a job that is not there.
LoadForUpdate(f, job) ==
    IF job = NoJob THEN Raised(f, "ValueError")
    ELSE [SetSeen(f, job.state) EXCEPT !.pc = "u_set", !.job = Changed(f, job)]

\* update_job_state with the event published before the job is saved.
update_job_state_PublishFirst(p) ==
    LET f == frames[p]
        job == get_job_status(jobs, f.job_id)
    IN \/ /\ f.pc = "u_get"
          /\ frames' = [frames EXCEPT ![p] = LoadForUpdate(f, job)]
          /\ UNCHANGED <<jobs, channel, persisted>>
       \/ /\ f.pc = "u_set"
          /\ channel' = Append(channel, Event("job_state_changed", f.job_id, f.state))
          /\ frames' = [frames EXCEPT ![p] = [f EXCEPT !.pc = "u_pub", !.pubs = @ + 1]]
          /\ UNCHANGED <<jobs, persisted>>
       \/ /\ f.pc = "u_pub"
          /\ jobs' = setex(jobs, f.job_id, f.job)
          /\ persisted' = Append(persisted, f.job.state)
          /\ frames' = [frames EXCEPT ![p] = Returned([f EXCEPT !.wrote = @ + 1])]
          /\ UNCHANGED channel

\* update_job_state: load, change the copy, save, publish.
update_job_state(p) ==
    LET f == frames[p]
        job == get_job_status(jobs, f.job_id)
    IN \/ /\ f.pc = "u_get"
          /\ frames' = [frames EXCEPT ![p] = LoadForUpdate(f, job)]
          /\ UNCHANGED <<jobs, channel, persisted>>
       \/ /\ f.pc = "u_set"
          /\ jobs' = setex(jobs, f.job_id, f.job)
          /\ persisted' = Append(persisted, f.job.state)
          /\ frames' = [frames EXCEPT ![p] = [f EXCEPT !.pc = "u_pub", !.wrote = @ + 1]]
          /\ UNCHANGED channel
       \/ /\ f.pc = "u_pub"
          /\ _publish_event(p, f, Event("job_state_changed", f.job_id, f.state))
          /\ UNCHANGED <<jobs, persisted>>

enrich_job_results(p) ==
    LET f == frames[p]
        job == get_job_status(jobs, f.job_id)
    IN \/ /\ f.pc = "e_get"
          /\ frames' = [frames EXCEPT ![p] =
                IF job = NoJob THEN Raised(f, "ValueError")
                ELSE [SetSeen(f, job.state) EXCEPT
                        !.pc = "e_set",
                        !.job = [job EXCEPT !.results = @ \cup {"enrichment"}]]]
          /\ UNCHANGED <<jobs, channel, persisted>>
       \/ /\ f.pc = "e_set"
          /\ jobs' = setex(jobs, f.job_id, f.job)
          /\ frames' = [frames EXCEPT ![p] = [f EXCEPT !.pc = "e_pub", !.wrote = @ + 1]]
          /\ UNCHANGED <<channel, persisted>>
       \/ /\ f.pc = "e_pub"
          /\ _publish_event(p, f, Event("job_enriched", f.job_id, None))
          /\ UNCHANGED <<jobs, persisted>>

record_error(p) ==
    LET f == frames[p]
        job == get_job_status(jobs, f.job_id)
    IN \/ /\ f.pc = "r_get"
          /\ frames' = [frames EXCEPT ![p] =
                IF job = NoJob THEN Raised(f, "ValueError")
                ELSE [SetSeen(f, job.state) EXCEPT
                        !.pc = "r_set",
                        !.job = [job EXCEPT !.errors = @ + 1]]]
          /\ UNCHANGED <<jobs, channel, persisted>>
       \/ /\ f.pc = "r_set"
          /\ jobs' = setex(jobs, f.job_id, f.job)
          /\ frames' = [frames EXCEPT ![p] = Returned([f EXCEPT !.wrote = @ + 1])]
          /\ UNCHANGED <<channel, persisted>>

\* process_job between its orchestrator calls: the first load with the
\* local scoring (which may raise), and the AI enrichment (which may raise).
process_job(p) ==
    LET f == frames[p]
        job == get_job_status(jobs, f.job_id)
    IN /\ \/ /\ f.pc = "p_get"
             /\ \E scored \in BOOLEAN :
                   frames' = [frames EXCEPT ![p] =
                      IF job = NoJob THEN Done(f, "error_result")
                      ELSE IF scored
                      THEN SubCall(SetSeen(f, job.state), "p_scored", "u_get",
                                   "scored", "pte_scoring")
                      ELSE SubCall(SetSeen(f, job.state), "p_fail_rec", "r_get",
                                   None, None)]
          \/ /\ f.pc = "p_ai"
             /\ \E answered \in BOOLEAN :
                   frames' = [frames EXCEPT ![p] =
                      IF answered THEN SubCall(f, "p_enrich", "e_get", None, None)
                      ELSE SubCall(f, "p_ai_err", "r_get", None, None)]
       /\ UNCHANGED <<jobs, channel, persisted>>

\* The calls a process can make, with the pc they start at.
Entry ==
    [create_scoring_job |-> "c_set", update_job_state |-> "u_get",
     transition_job |-> "t_get", enrich_job_results |-> "e_get",
     record_error |-> "r_get", process_job |-> "p_get",
     enqueue_job_to_worker |-> "q_get"]

\* A process that is in no call makes one.  uuid4 gives create_scoring_job
\* an id that is not in use; update_job_state is called as worker.py calls
\* it, with the step name.
Start(p, op, job_id, state) ==
    /\ frames[p].pc \in {"idle", "done"}
    /\ ncalls < MaxCalls
    /\ op = "create_scoring_job" => job_id \notin DOMAIN jobs
    /\ op = "update_job_state" => state = "scored"
    /\ frames' = [frames EXCEPT ![p] =
          [Frame(op, Entry[op], job_id, state) EXCEPT
             !.step_name = IF op = "update_job_state" THEN "pte_scoring" ELSE None]]
    /\ ncalls' = ncalls + 1
    /\ UNCHANGED <<jobs, channel, persisted, subscriber>>

\* A client opens /stream/scoring/{job_id}: it is subscribed from here on.
Subscribe(job_id) ==
    /\ ~subscriber.connected
    /\ subscriber' = [connected |-> TRUE, job_id |-> job_id, from |-> Len(channel)]
    /\ UNCHANGED <<jobs, frames, channel, persisted, ncalls>>

\* event_generator without the test of data.job_id.
event_generator_Unfiltered ==
    IF ~subscriber.connected THEN << >>
    ELSE << Event("connected", subscriber.job_id, None) >>
         \o SubSeq(channel, subscriber.from + 1, Len(channel))

\* What event_generator has yielded to the client: the connected event,
\* then the events published since whose data.job_id is its job id (the
\* job_id of Event is the job_id inside the event's data), in channel order.
event_generator ==
    IF ~subscriber.connected THEN << >>
    ELSE LET ForJob(ev) == ev.job_id = subscriber.job_id
         IN << Event("connected", subscriber.job_id, None) >>
            \o SelectSeq(SubSeq(channel, subscriber.from + 1, Len(channel)), ForJob)

\* No orchestrator call is in progress.
Quiescent == \A p \in Procs : frames[p].pc \in {"idle", "done"}

\* A lifecycle event for a pet that is not in the store.  The pet steps
\* and the scoring service share no state, so the order between them does
\* not matter: the step is taken between orchestrator calls.
DeliverUnknown(pid, event_type) ==
    /\ Quiet /\ Quiescent
    /\ get(store, pid) = NoPet
    /\ Orchestrate([petId |-> pid, event |-> event_type,
                    requestedStatus |-> None, automatic |-> FALSE], inflight)

\* The jobs found in Redis at start: none, or one in any state, with the
\* scoring step recorded if it is past it.
InitialJobs ==
    {JobRecord(st, IF st \in {"scored", "enriched", "completed"}
                   THEN << "pte_scoring" >> ELSE << >>,
               IF st \in {"scored", "enriched", "completed"}
                   THEN {"pte_scoring"} ELSE {}, 0) : st \in ScoringState}

JobInit ==
    /\ store = << >>
    /\ inflight = {}
    /\ timers = {}
    /\ last = Idle("idle")
    /\ guardrun = NoGuardRun
    /\ \E ids \in SUBSET JobIds : jobs \in [ids -> InitialJobs]
    /\ frames = [p \in Procs |-> IdleFrame]
    /\ channel = << >>
    /\ persisted = << >>
    /\ subscriber = NoSubscriber
    /\ ncalls = 0
    /\ AuxIdle

\* The orchestrator's methods as callers other than process_job use them.
Methods == DOMAIN Entry \ {"process_job", "enqueue_job_to_worker"}

\* The arguments of the calls: transition_job takes any next state.
CallArgs(op) ==
    IF op = "transition_job" THEN ScoringState
    ELSE IF op = "update_job_state" THEN {"scored"}
    ELSE {None}

\* Two callers use the orchestrator's methods.  They are alike: p1 makes
\* the first call.
JobNext ==
    \/ Observe /\ UNCHANGED <<guardvars, jobvars, auxvars>>
    \/ \E pid \in PetIds, e \in {"status.update.requested"} :
          DeliverUnknown(pid, e) /\ UNCHANGED <<guardvars, jobvars, auxvars>>
    \/ \E job_id \in JobIds :
          Quiet /\ Subscribe(job_id) /\ UNCHANGED <<petvars, guardvars, auxvars>>
    \/ \E p \in Procs, job_id \in JobIds, op \in Methods :
          \E state \in CallArgs(op) :
             /\ Quiet
             /\ ncalls = 0 => p = "p1"
             /\ Start(p, op, job_id, state)
             /\ UNCHANGED <<petvars, guardvars, auxvars>>
    \/ \E p \in Procs :
          Quiet /\ create_scoring_job(p)
                /\ UNCHANGED <<petvars, guardvars, subscriber, ncalls, auxvars>>
    \/ \E p \in Procs :
          Quiet /\ transition_job(p)
                /\ UNCHANGED <<petvars, guardvars, subscriber, ncalls, auxvars>>
    \/ \E p \in Procs :
          Quiet /\ update_job_state(p)
                /\ UNCHANGED <<petvars, guardvars, subscriber, ncalls, auxvars>>
    \/ \E p \in Procs :
          Quiet /\ enrich_job_results(p)
                /\ UNCHANGED <<petvars, guardvars, subscriber, ncalls, auxvars>>
    \/ \E p \in Procs :
          Quiet /\ record_error(p)
                /\ UNCHANGED <<petvars, guardvars, subscriber, ncalls, auxvars>>

JobSpec == JobInit /\ [][JobNext]_vars

\* ------------------------------------------------------ the RQ worker
\* p1 is the worker: it runs process_job for the job ids the queue hands
\* it, possibly more than once for the same id.  p2 is a caller of
\* transition_job, enrich_job_results or record_error at the same time.
WorkerInit ==
    /\ JobInit
    /\ jobs # << >>

WorkerNext ==
    \/ \E job_id \in JobIds :
          Start("p1", "process_job", job_id, None) /\ UNCHANGED <<petvars, guardvars, auxvars>>
    \/ \E job_id \in JobIds, op \in Methods \ {"create_scoring_job", "update_job_state"} :
          \E state \in CallArgs(op) :
             Start("p2", op, job_id, state) /\ UNCHANGED <<petvars, guardvars, auxvars>>
    \/ \E p \in Procs :
          process_job(p) /\ UNCHANGED <<petvars, guardvars, subscriber, ncalls, auxvars>>
    \/ \E p \in Procs :
          transition_job(p) /\ UNCHANGED <<petvars, guardvars, subscriber, ncalls, auxvars>>
    \/ \E p \in Procs :
          update_job_state(p) /\ UNCHANGED <<petvars, guardvars, subscriber, ncalls, auxvars>>
    \/ \E p \in Procs :
          enrich_job_results(p) /\ UNCHANGED <<petvars, guardvars, subscriber, ncalls, auxvars>>
    \/ \E p \in Procs :
          record_error(p) /\ UNCHANGED <<petvars, guardvars, subscriber, ncalls, auxvars>>

WorkerSpec == WorkerInit /\ [][WorkerNext]_vars

\* ------------------------------------------------ the enqueue endpoint
\* POST /jobs/{job_id}/enqueue: 404 for a job that is not there, else
\* transition_job(job_id, PROCESSING) and, when that returned, enqueue of
\* app.worker.process_job on the RQ queue (a Redis command, which succeeds
\* or raises).
enqueue_job_to_worker(p) ==
    LET f == frames[p]
        job_status == get_job_status(jobs, f.job_id)
    IN /\ \/ /\ f.pc = "q_get"
             /\ frames' = [frames EXCEPT ![p] =
                   IF job_status = NoJob THEN Done(f, "404")
                   ELSE [SetSeen(f, job_status.state) EXCEPT
                           !.pc = "t_get", !.state = "processing"]]
             /\ UNCHANGED scoring_queue
          \/ /\ f.pc = "q_enqueue"
             /\ \E ok \in BOOLEAN :
                   IF ok
                   THEN /\ scoring_queue' = Append(scoring_queue, f.job_id)
                        /\ frames' = [frames EXCEPT ![p] = Done(f, "returned")]
                   ELSE /\ scoring_queue' = scoring_queue
                        /\ frames' = [frames EXCEPT ![p] = Done(f, "ConnectionError")]
       /\ UNCHANGED <<jobs, channel, persisted>>

\* Requests to the enqueue endpoint, served by two threads at a time.  They
\* are alike: p1 serves the first.
EnqueueNext ==
    \/ \E p \in Procs, job_id \in JobIds :
          /\ ncalls = 0 => p = "p1"
          /\ Start(p, "enqueue_job_to_worker", job_id, None)
          /\ UNCHANGED <<petvars, guardvars, auxvars>>
    \/ \E p \in Procs :
          enqueue_job_to_worker(p)
          /\ UNCHANGED <<petvars, guardvars, subscriber, ncalls, storevars, ssevars,
                         streamvars, calibvars, chain, now, reaper, handling>>
    \/ \E p \in Procs :
          transition_job(p) /\ UNCHANGED <<petvars, guardvars, subscriber, ncalls, auxvars>>
    \/ \E p \in Procs :
          update_job_state(p) /\ UNCHANGED <<petvars, guardvars, subscriber, ncalls, auxvars>>

EnqueueSpec == JobInit /\ [][EnqueueNext]_vars

\* ------------------------------------------------ the two state machines
\* The pet orchestrator with its pets file and the scoring orchestrator
\* with Redis share no state: a run is a run of the one (a pet on file and
\* a message queued) or of the other (no pets file).
NotifyInit ==
    \/ AutoInit /\ store # << >>
    \/ JobInit

NotifyNext ==
    \/ AutoNext
    \/ store = << >> /\ JobNext

NotifySpec == NotifyInit /\ [][NotifyNext]_vars

\* ------------------------------------------------- the per-job stream
\* /stream/scoring/{job_id} with jobs of two ids: the orchestrator's calls
\* are made one after the other by p1, the client listens on
\* scoring_workflow.  event_generator sits in pubsub.listen(), which
\* returns only when a message comes: while none comes, time passes and
\* the generator yields nothing.
StreamJobIds == {"j1", "j2"}

MaxWaited == 1

\* The keepalive period (30 seconds) passes with no message on the channel.
ListenIdle ==
    /\ subscriber.connected
    /\ waited < MaxWaited
    /\ waited' = waited + 1
    /\ UNCHANGED <<petvars, guardvars, jobvars, storevars, ssevars, calibvars, othervars>>

StreamInit ==
    /\ store = << >>
    /\ PetsIdle
    /\ \E ids \in SUBSET StreamJobIds :
          jobs \in [ids -> {job \in InitialJobs : job.state \in {"pending", "scored"}}]
    /\ frames = [p \in Procs |-> IdleFrame]
    /\ channel = << >>
    /\ persisted = << >>
    /\ subscriber = NoSubscriber
    /\ ncalls = 0
    /\ AuxIdle

StreamNext ==
    \/ \E job_id \in StreamJobIds :
          Subscribe(job_id) /\ UNCHANGED <<petvars, guardvars, auxvars>>
    \/ ListenIdle
    \/ \E job_id \in StreamJobIds,
          op \in {"create_scoring_job", "transition_job", "enrich_job_results"} :
          \E state \in CallArgs(op) :
             Start("p1", op, job_id, state) /\ UNCHANGED <<petvars, guardvars, auxvars>>
    \/ \E p \in Procs :
          create_scoring_job(p) /\ UNCHANGED <<petvars, guardvars, subscriber, ncalls, auxvars>>
    \/ \E p \in Procs :
          transition_job(p) /\ UNCHANGED <<petvars, guardvars, subscriber, ncalls, auxvars>>
    \/ \E p \in Procs :
          update_job_state(p) /\ UNCHANGED <<petvars, guardvars, subscriber, ncalls, auxvars>>
    \/ \E p \in Procs :
          enrich_job_results(p) /\ UNCHANGED <<petvars, guardvars, subscriber, ncalls, auxvars>>

StreamSpec == StreamInit /\ [][StreamNext]_vars

\* ------------------------------------ the pet store used concurrently
\* Every pet_store function is db = load() ... save(db) on the whole file
\* .data/pets.json, with no lock; the step handlers that call them run in
\* processes of their own.  A call is two steps, the read of the file and
\* the write of the file; calls of other processes may come in between.
StorePetIds == {"1", "2"}

StoreStatuses == {"healthy", "available"}

\* load(): the file as it is now (json.load of what json.dump wrote).
load == store

\* save(db): the file is replaced by db, all pets of it.
save(db) == db

\* A handler calls pet_store.update_status(pid, status).
BeginUpdateStatus(p, pid, status) ==
    /\ storecalls[p].pc = "idle"
    /\ storecalls' = [storecalls EXCEPT ![p] = StoreCall("load", pid, status)]
    /\ UNCHANGED store

\* db = load(); pet = db['pets'].get(pid); if not pet: return None
UpdateStatusLoad(p) ==
    LET call == storecalls[p] IN
    /\ call.pc = "load"
    /\ storecalls' = [storecalls EXCEPT ![p] =
          IF get(load, call.pid) = NoPet
          THEN [call EXCEPT !.pc = "done", !.returned = NoPet]
          ELSE [call EXCEPT !.pc = "save", !.db = load]]
    /\ UNCHANGED store

\* db['pets'][pid] = updated_pet; save(db); return updated_pet
UpdateStatusSave(p) ==
    LET call == storecalls[p] IN
    /\ call.pc = "save"
    /\ \E t \in _now(store) :
          LET db == update_status(call.db, call.pid, call.status, t) IN
          /\ store' = save(db)
          /\ storecalls' = [storecalls EXCEPT ![p] =
                [call EXCEPT !.pc = "done", !.db = << >>, !.returned = db[call.pid]]]

StoreInit ==
    /\ \E ids \in SUBSET StorePetIds : store \in [ids -> {PetRecord("new", {}, 0)}]
    /\ PetsIdle
    /\ JobsIdle
    /\ AuxIdle

StoreNext ==
    \/ \E p \in StoreProcs, pid \in StorePetIds, status \in StoreStatuses :
          BeginUpdateStatus(p, pid, status)
          /\ UNCHANGED <<inflight, timers, last, guardvars, jobvars,
                         ssevars, streamvars, calibvars, othervars>>
    \/ \E p \in StoreProcs :
          UpdateStatusLoad(p)
          /\ UNCHANGED <<inflight, timers, last, guardvars, jobvars,
                         ssevars, streamvars, calibvars, othervars>>
    \/ \E p \in StoreProcs :
          UpdateStatusSave(p)
          /\ UNCHANGED <<inflight, timers, last, guardvars, jobvars,
                         ssevars, streamvars, calibvars, othervars>>

StoreSpec == StoreInit /\ [][StoreNext]_vars

\* ------------------------------------------------- the deletion reaper
\* The daily cron step PyDeletionReaper next to the steps that write the
\* pets file: the delete endpoint, the feeding reminder job and the
\* orchestrator's handler, each in a process of its own.  The clock `now`
\* counts days.  A store call is one step; the reaper's loop and the
\* handler (between the load of the pet and update_status) take several.

\* purgeAt is 30 days after the deletion.
PurgeDelay == 30

\* The days the clock shows: the start, the eve of the first purge date and
\* that date.
Times == {0, PurgeDelay - 1, PurgeDelay}

\* pet.get('purgeAt', 0)
purgeAt(pet) == IF "purgeAt" \in DOMAIN pet THEN pet.purgeAt ELSE 0

\* soft_delete with the purgeAt it writes, which the reaper reads.
soft_delete_at(db, pid, now_ms) ==
    IF get(db, pid) = NoPet THEN db
    ELSE [db EXCEPT ![pid] =
            [purgeAt |-> now_ms + PurgeDelay]
               @@ [@ EXCEPT !.status = "deleted", !.updatedAt = now_ms]]

\* pet_store.remove
pet_store_remove(db, pid) == [k \in DOMAIN db \ {pid} |-> db[k]]

\* The test of find_deleted_pets_ready_to_purge without the purgeAt part.
ReadyToPurge_AnyDeleted(pet, now_ms) == pet.status = "deleted"

\* The test of find_deleted_pets_ready_to_purge on one pet.
ReadyToPurge(pet, now_ms) ==
    pet.status = "deleted" /\ purgeAt(pet) <= now_ms

\* db['pets'].values() in the order of the file: the order of creation.
PetOrder == << "1", "2" >>

\* The ids of the pets find_deleted_pets_ready_to_purge returns.
find_deleted_pets_ready_to_purge(db, now_ms) ==
    SelectSeq(PetOrder,
              LAMBDA pid : pid \in DOMAIN db /\ ReadyToPurge(db[pid], now_ms))

\* The reaper starts: it scans the file, and is done if nothing is ready.
\* One run of it is followed.
ReaperScan ==
    /\ reaper.pc = "idle"
    /\ LET pets_to_reap == find_deleted_pets_ready_to_purge(store, now) IN
       reaper' = [NoReaper EXCEPT
                     !.pc = IF pets_to_reap = << >> THEN "done" ELSE "loop",
                     !.scanned_at = now, !.found = store,
                     !.pets_to_reap = pets_to_reap,
                     !.purgedCount = IF pets_to_reap = << >> THEN 0 ELSE None]
    /\ UNCHANGED <<store, now, handling, last, timers, inflight>>

\* One round of the reaper's loop: remove the pet, count it if that worked.
ReaperRemove ==
    /\ reaper.pc = "loop"
    /\ reaper.pets_to_reap # << >>
    /\ LET pid == Head(reaper.pets_to_reap)
           success == pid \in DOMAIN store
       IN /\ store' = pet_store_remove(store, pid)
          /\ reaper' = [reaper EXCEPT
                          !.pets_to_reap = Tail(@),
                          !.purged_count = IF success THEN @ + 1 ELSE @]
    /\ UNCHANGED <<now, handling, last, timers, inflight>>

\* After the loop the reaper emits py.reaper.completed with its count.
ReaperComplete ==
    /\ reaper.pc = "loop"
    /\ reaper.pets_to_reap = << >>
    /\ reaper' = [reaper EXCEPT !.pc = "done", !.purgedCount = reaper.purged_count]
    /\ UNCHANGED <<store, now, handling, last, timers, inflight>>

\* DELETE /py/pets/:id
ReaperSoftDelete(pid) ==
    /\ get(store, pid) # NoPet
    /\ store' = soft_delete_at(store, pid, now)
    /\ UNCHANGED <<now, reaper, handling, last, timers, inflight>>

\* The feeding reminder job writes the status in_quarantine.
ReaperFeedingReminder(pid) ==
    /\ get(store, pid) # NoPet
    /\ get(store, pid).status # "in_quarantine"
    /\ store' = update(store, pid, [status |-> "in_quarantine"], now)
    /\ UNCHANGED <<now, reaper, handling, last, timers, inflight>>

\* Time passes.
Tick ==
    /\ \E t \in Times : t > now /\ now' = t
    /\ UNCHANGED <<store, reaper, handling, last, timers, inflight>>

\* The orchestrator's handler is given a message and loads the pet; it
\* returns at once unless it gets as far as update_status.
HandlerLoad(input_data) ==
    /\ handling.pc = "idle"
    /\ LET pet == get(store, input_data.petId)
           r == LifecycleHandler(store, input_data, now)
       IN IF r.outcome \in {"applied", "error"}
          THEN /\ handling' = [pc |-> "write", input_data |-> input_data,
                               pet |-> pet, rule |-> r.rule]
               /\ UNCHANGED last
          ELSE /\ handling' = NoHandling
               /\ last' = Step("lifecycle", input_data, pet, r.outcome, r.rule,
                               r.reason, r.emitted, r.scheduled, r.checked)
    /\ UNCHANGED <<store, now, reaper, timers, inflight>>

\* The handler goes on from update_status with the pet it loaded.
HandlerWrite ==
    /\ handling.pc = "write"
    /\ LET input_data == handling.input_data
           r == ApplyTransition(store, input_data.petId, handling.pet,
                                handling.rule, input_data.event, now)
       IN /\ store' = r.store
          /\ inflight' = inflight \cup Routed(r.emitted)
          /\ timers' = timers \cup r.scheduled
          /\ last' = Step("lifecycle", input_data, handling.pet, r.outcome, r.rule,
                          r.reason, r.emitted, r.scheduled, r.checked)
    /\ handling' = NoHandling
    /\ UNCHANGED <<now, reaper>>

\* The requests for a status that staff send through the update endpoint.
HandlerInputs ==
    {[petId |-> pid, event |-> "status.update.requested",
      requestedStatus |-> "healthy", automatic |-> FALSE] : pid \in PetIds}

ReaperInit ==
    /\ \E ids \in SUBSET StorePetIds :
          store \in [ids -> {PetRecord("healthy", {}, 0)}]
    /\ PetsIdle
    /\ JobsIdle
    /\ AuxIdle

ReaperNext ==
    \/ ReaperScan
       /\ UNCHANGED <<guardvars, jobvars, storevars, ssevars, streamvars, calibvars,
                      chain, scoring_queue>>
    \/ ReaperRemove
       /\ UNCHANGED <<guardvars, jobvars, storevars, ssevars, streamvars, calibvars,
                      chain, scoring_queue>>
    \/ ReaperComplete
       /\ UNCHANGED <<guardvars, jobvars, storevars, ssevars, streamvars, calibvars,
                      chain, scoring_queue>>
    \/ \E pid \in StorePetIds :
          ReaperSoftDelete(pid)
          /\ UNCHANGED <<guardvars, jobvars, storevars, ssevars, streamvars, calibvars,
                         chain, scoring_queue>>
    \/ \E pid \in PetIds :
          ReaperFeedingReminder(pid)
          /\ UNCHANGED <<guardvars, jobvars, storevars, ssevars, streamvars, calibvars,
                         chain, scoring_queue>>
    \/ Tick
       /\ UNCHANGED <<guardvars, jobvars, storevars, ssevars, streamvars, calibvars,
                      chain, scoring_queue>>
    \/ \E input_data \in HandlerInputs :
          HandlerLoad(input_data)
          /\ UNCHANGED <<guardvars, jobvars, storevars, ssevars, streamvars, calibvars,
                         chain, scoring_queue>>
    \/ HandlerWrite
       /\ UNCHANGED <<guardvars, jobvars, storevars, ssevars, streamvars, calibvars,
                      chain, scoring_queue>>

ReaperSpec == ReaperInit /\ [][ReaperNext]_vars

\* ------------------------------------------------- the SSE publisher
\* SSEPublisher runs on the asyncio event loop: a method runs until it
\* awaits something that is not ready, so subscribe, unsubscribe and a
\* publish whose queues are not full are one step each, and a stream_updates
\* generator takes a step each time queue.get() or the timeout wakes it.
MaxPublished == 2

MaxKeepalives == 1

MaxUpdates == 1

WorkflowStatus == {"pending", "processing", "completed", "failed"}

\* An event handed to publish; n tells the events apart (the n-th publish).
SseEvent(workflow_id, n) == [workflow_id |-> workflow_id, n |-> n]

NoEvent == SseEvent(None, 0)

\* f"data: {json.dumps(event)}\n\n"
Data(event) == [line |-> "data", event |-> event]

\* ": keepalive\n\n"
Keepalive == [line |-> "comment", event |-> NoEvent]

\* asyncio.Queue(): maxsize 0, a queue that is never full.
maxsize == 0

full(queue) == maxsize > 0 /\ Len(queue) >= maxsize

\* queue.put(event) on a queue that is not full.
put(queue, event) == Append(queue, event)

\* self.subscribers.get(workflow_id), [] when the key is not there.
subscribed(subs, workflow_id) ==
    IF workflow_id \in DOMAIN subs THEN subs[workflow_id] ELSE << >>

\* subscribe: the list of the key is made if needed, the new queue appended.
subscribe(subs, workflow_id, queue) ==
    [k \in DOMAIN subs \cup {workflow_id} |->
        IF k = workflow_id THEN Append(subscribed(subs, k), queue)
        ELSE subs[k]]

\* list.remove(x): the list without its first x.
RECURSIVE remove(_, _)
remove(list, x) ==
    IF list = << >> THEN << >>
    ELSE IF Head(list) = x THEN Tail(list)
    ELSE << Head(list) >> \o remove(Tail(list), x)

IsIn(list, x) == \E i \in 1..Len(list) : list[i] = x

\* unsubscribe that lets the ValueError of list.remove out.
unsubscribe_NoCatch(subs, workflow_id, queue) ==
    IF workflow_id \notin DOMAIN subs
    THEN [subscribers |-> subs, raised |-> "KeyError"]
    ELSE IF IsIn(subs[workflow_id], queue)
    THEN [subscribers |-> [subs EXCEPT ![workflow_id] = remove(@, queue)],
          raised |-> None]
    ELSE [subscribers |-> subs, raised |-> "ValueError"]

\* unsubscribe that drops the list of the key.
unsubscribe_DropsKey(subs, workflow_id, queue) ==
    IF workflow_id \notin DOMAIN subs
    THEN [subscribers |-> subs, raised |-> None]
    ELSE [subscribers |-> [subs EXCEPT ![workflow_id] = << >>], raised |-> None]

\* unsubscribe: the queue is taken off the list of its key; a key that is
\* not there and a queue that is not on the list (ValueError) are passed over.
unsubscribe(subs, workflow_id, queue) ==
    IF workflow_id \notin DOMAIN subs
    THEN [subscribers |-> subs, raised |-> None]
    ELSE IF IsIn(subs[workflow_id], queue)
    THEN [subscribers |-> [subs EXCEPT ![workflow_id] = remove(@, queue)],
          raised |-> None]
    ELSE [subscribers |-> subs, raised |-> None]

\* The loop of publish over a list that holds every queue.
PutAll_ToEveryKey(qs, list, event) ==
    [q \in DOMAIN qs |-> put(qs[q], event)]

\* for queue in self.subscribers[workflow_id]: await queue.put(event)
RECURSIVE PutAll(_, _, _)
PutAll(qs, list, event) ==
    IF list = << >> THEN qs
    ELSE PutAll([qs EXCEPT ![Head(list)] = put(@, event)], Tail(list), event)

\* publish(workflow_id, event): every queue on the list of the key gets
\* the event.  put waits while a queue is full, which no queue ever is.
publish(workflow_id, event) ==
    LET list == subscribed(subscribers, workflow_id) IN
    /\ Len(published) < MaxPublished
    /\ \A i \in 1..Len(list) : ~full(queues[list[i]])
    /\ queues' = PutAll(queues, list, event)
    /\ published' = Append(published, event)
    /\ UNCHANGED <<subscribers, streams, lastunsub, workflows, wfchannel>>

\* The workflow as get_workflow returns it, None when it is not in Redis.
get_workflow(workflow_id) ==
    IF workflow_id \in DOMAIN workflows THEN workflows[workflow_id] ELSE None

\* GET /workflow/{workflow_id}/stream: 404 for a workflow that is not
\* there, else stream_updates is started and subscribes.
stream_workflow_updates(s, workflow_id) ==
    /\ streams[s].pc = "new"
    /\ get_workflow(workflow_id) # None
    /\ subscribers' = subscribe(subscribers, workflow_id, s)
    /\ queues' = [q \in DOMAIN queues \cup {s} |-> IF q = s THEN << >> ELSE queues[q]]
    /\ streams' = [streams EXCEPT ![s] =
          Stream("waiting", workflow_id, Len(published), Len(wfchannel))]
    /\ UNCHANGED <<published, lastunsub, workflows, wfchannel>>

Keepalives(out) == Cardinality({i \in 1..Len(out) : out[i] = Keepalive})

\* except asyncio.TimeoutError: yield ": keepalive\n\n"; continue
OnTimeout(s) ==
    /\ streams' = [streams EXCEPT ![s] =
          IF Keepalives(@.out) < MaxKeepalives
          THEN [@ EXCEPT !.out = Append(@, Keepalive)]
          ELSE [@ EXCEPT !.odd = ~@]]
    /\ subscribers' = subscribers

\* stream_updates, one turn of its loop: the event at the head of the queue
\* is yielded, or the 30 seconds pass with the queue empty.
stream_updates(s) ==
    LET st == streams[s] IN
    /\ st.pc = "waiting"
    /\ \/ /\ queues[s] # << >>
          /\ streams' = [streams EXCEPT ![s] =
                [st EXCEPT !.out = Append(@, Data(Head(queues[s])))]]
          /\ queues' = [queues EXCEPT ![s] = Tail(@)]
          /\ UNCHANGED subscribers
       \/ /\ queues[s] = << >>
          /\ OnTimeout(s)
          /\ UNCHANGED queues
    /\ UNCHANGED <<published, lastunsub, workflows, wfchannel>>

\* What a call of unsubscribe did, for lastunsub.
Unsubscribed(workflow_id, queue) ==
    LET r == unsubscribe(subscribers, workflow_id, queue) IN
    [workflow_id |-> workflow_id, queue |-> queue,
     present |-> IsIn(subscribed(subscribers, workflow_id), queue),
     raised |-> r.raised, changed |-> r.subscribers # subscribers]

\* The client goes away or the request is cancelled: the generator is
\* closed where it waits and its finally clause unsubscribes.
StreamEnds(s) ==
    /\ streams[s].pc = "waiting"
    /\ subscribers' = unsubscribe(subscribers, streams[s].workflow_id, s).subscribers
    /\ lastunsub' = Unsubscribed(streams[s].workflow_id, s)
    /\ streams' = [streams EXCEPT ![s] = [@ EXCEPT !.pc = "closed"]]
    /\ UNCHANGED <<queues, published, workflows, wfchannel>>

\* unsubscribe called for a queue that is not on the list of the key: it
\* was removed before, it is on another list, or the key has no list.
UnsubscribeAgain(workflow_id, queue) ==
    /\ ~IsIn(subscribed(subscribers, workflow_id), queue)
    /\ lastunsub.present
    /\ subscribers' = unsubscribe(subscribers, workflow_id, queue).subscribers
    /\ lastunsub' = Unsubscribed(workflow_id, queue)
    /\ UNCHANGED <<queues, streams, published, workflows, wfchannel>>

\* update_workflow_status: nothing for a workflow that is not there; else
\* the status is set and saved and the state is published on the Redis
\* channel workflow_updates:<id> (redis.publish succeeds or raises).  No
\* code subscribes to that channel and none calls SSEPublisher.publish.
update_workflow_status(workflow_id, status) ==
    /\ Len(wfchannel) < MaxUpdates
    /\ get_workflow(workflow_id) # None
    /\ workflows' = [workflows EXCEPT ![workflow_id] = status]
    /\ \E ok \in BOOLEAN :
          wfchannel' = IF ok
                       THEN Append(wfchannel, [workflow_id |-> workflow_id,
                                               status |-> status,
                                               was |-> workflows[workflow_id]])
                       ELSE wfchannel
    /\ UNCHANGED <<subscribers, queues, streams, published, lastunsub>>

\* Everything but the SSE publisher and the workflows is at rest.
OnlySse ==
    /\ store = << >>
    /\ PetsIdle
    /\ JobsIdle
    /\ StoreIdle
    /\ waited = 0
    /\ CalibIdle
    /\ OthersIdle

NoSseCall ==
    /\ subscribers = << >>
    /\ queues = << >>
    /\ streams = [s \in Streams |-> NewStream]
    /\ published = << >>
    /\ lastunsub = NoUnsubscribe
    /\ wfchannel = << >>

\* The publisher with callers of publish; the workflows streamed exist.
SseInit ==
    /\ OnlySse
    /\ NoSseCall
    /\ workflows = [workflow_id \in WorkflowIds |-> "pending"]

\* The clients are alike: s1 is the first to connect.
Connect(s, workflow_id) ==
    /\ s # "s1" => streams["s1"].pc # "new"
    /\ stream_workflow_updates(s, workflow_id)
    /\ UNCHANGED <<petvars, guardvars, jobvars, storevars, streamvars, calibvars, othervars>>

StreamStep(s) ==
    /\ stream_updates(s)
    /\ UNCHANGED <<petvars, guardvars, jobvars, storevars, streamvars, calibvars, othervars>>

Disconnect(s) ==
    /\ StreamEnds(s)
    /\ UNCHANGED <<petvars, guardvars, jobvars, storevars, streamvars, calibvars, othervars>>

SseNext ==
    \/ \E workflow_id \in WorkflowIds :
          publish(workflow_id, SseEvent(workflow_id, Len(published) + 1))
          /\ UNCHANGED <<petvars, guardvars, jobvars, storevars, streamvars, calibvars, othervars>>
    \/ \E s \in Streams, workflow_id \in WorkflowIds : Connect(s, workflow_id)
    \/ \E s \in Streams : StreamStep(s)
    \/ \E s \in Streams : Disconnect(s)
    \/ \E workflow_id \in WorkflowIds, queue \in DOMAIN queues :
          UnsubscribeAgain(workflow_id, queue)
          /\ UNCHANGED <<petvars, guardvars, jobvars, storevars, streamvars, calibvars, othervars>>

SseSpec == SseInit /\ [][SseNext]_vars

\* ------------------------------------- workflow updates and the stream
\* main_production.py: the workflows are changed by update_workflow_status
\* and streamed by /workflow/{workflow_id}/stream.  Nothing in the service
\* calls SSEPublisher.publish.
WorkflowInit ==
    /\ OnlySse
    /\ NoSseCall
    /\ \E ids \in SUBSET WorkflowIds : workflows \in [ids -> {"pending"}]

WorkflowNext ==
    \/ \E s \in Streams, workflow_id \in WorkflowIds : Connect(s, workflow_id)
    \/ \E s \in Streams : StreamStep(s)
    \/ \E s \in Streams : Disconnect(s)
    \/ \E workflow_id \in WorkflowIds, status \in WorkflowStatus :
          update_workflow_status(workflow_id, status)
          /\ UNCHANGED <<petvars, guardvars, jobvars, storevars, streamvars, calibvars, othervars>>

WorkflowSpec == WorkflowInit /\ [][WorkflowNext]_vars

\* The event loop runs every generator that can take a step.
WorkflowLiveSpec ==
    WorkflowSpec /\ \A s \in Streams : WF_vars(StreamStep(s))

\* ------------------------------------------------ PTE band calibration
MIN_SCORE == 10

MAX_SCORE == 90

\* The composites the calibration is asked about: the integers of 0-100.
Composites == 0..100

Max(a, b) == IF a >= b THEN a ELSE b

Min(a, b) == IF a <= b THEN a ELSE b

\* int(10 + (composite / 100) * 80): the float is cut to an integer, which
\* for an integer composite of 0..100 is the floor of the exact value.
Scaled(value) == (1000 + 80 * value) \div 100

\* _calibrate_to_band without the last step to a multiple of 10.
_calibrate_to_band_Unrounded(value) ==
    Max(MIN_SCORE, Min(MAX_SCORE, Scaled(value)))

\* _calibrate_to_band(composite): scale, keep within MIN_SCORE..MAX_SCORE,
\* go down to the multiple of 10, (band // 10) * 10.
_calibrate_to_band(value) ==
    LET clamped == Max(MIN_SCORE, Min(MAX_SCORE, Scaled(value)))
    IN (clamped \div 10) * 10

\* A call of _calibrate_to_band(composite).
Calibrate ==
    /\ band = << >>
    /\ band' = << _calibrate_to_band(composite) >>
    /\ UNCHANGED <<composite, petvars, guardvars, jobvars, storevars, ssevars,
                   streamvars, othervars>>

CalibInit ==
    /\ store = << >>
    /\ PetsIdle
    /\ JobsIdle
    /\ StoreIdle
    /\ SseIdle
    /\ waited = 0
    /\ composite \in Composites
    /\ band = << >>
    /\ OthersIdle

CalibNext == Calibrate

CalibSpec == CalibInit /\ [][CalibNext]_vars

\* --------------------------------------------------------------- claims
\* The pet the last step was about, as it is stored now.
LastPet == get(store, last.input.petId)

Lifecycle == last.op = "lifecycle" /\ last.pre # NoPet

\* Some rule of the table is for this event in this status (and, for a
\* status.update.requested that names a status, leads to it).
SomeRuleFor(status, event_type, requested_status) ==
    \E i \in 1..Len(TRANSITION_RULES) :
       /\ TRANSITION_RULES[i].event = event_type
       /\ status \in TRANSITION_RULES[i].from
       /\ (event_type = "status.update.requested" /\ requested_status # None)
             => TRANSITION_RULES[i].to = requested_status

Topics(emitted) == [i \in 1..Len(emitted) |-> emitted[i].topic]

\* C1: when no rule of TRANSITION_RULES matches the pet's status and the
\* event (with its requested status), the handler rejects: it emits exactly
\* one py.lifecycle.transition.rejected and the stored pet (status,
\* updatedAt) is as it was loaded.
C1_NoRuleRejected ==
    (Lifecycle /\ ~SomeRuleFor(last.pre.status, last.input.event,
                               last.input.requestedStatus))
    => /\ last.outcome = "rejected"
       /\ Topics(last.emitted) = << "py.lifecycle.transition.rejected" >>
       /\ last.emitted[1].petId = last.input.petId
       /\ last.scheduled = {}
       /\ LastPet = last.pre

\* C1 witness: a staff request for a status no rule leads to was rejected.
C1_Witness ==
    /\ Lifecycle
    /\ last.input.event = "status.update.requested"
    /\ last.input.requestedStatus = "adopted"
    /\ last.pre.status = "healthy"
    /\ last.outcome = "rejected"

GuardReason(guard, pet) ==
    IF guard = "no_needs_data_flag" THEN "Pet has needs_data flag blocking adoption"
    ELSE IF guard = "must_be_healthy"
    THEN "Pet must be healthy (current: " \o pet.status \o ")"
    ELSE "Unknown guard: " \o guard

GuardHolds(guard, pet) ==
    IF guard = "no_needs_data_flag" THEN "needs_data" \notin pet.flags
    ELSE IF guard = "must_be_healthy" THEN pet.status = "healthy"
    ELSE FALSE

\* The first guard of the rule that fails on the pet, 0 when all hold.
FirstFailing(rule, pet) ==
    LET bad == {k \in 1..Len(rule.guards) : ~GuardHolds(rule.guards[k], pet)}
    IN IF bad = {} THEN 0 ELSE CHOOSE k \in bad : \A j \in bad : k <= j

\* adoption.ready reached a healthy pet.
AdoptionReadyOnHealthy ==
    Lifecycle /\ last.input.event = "adoption.ready" /\ last.pre.status = "healthy"

C3_FlagActionAtomic ==
    (Lifecycle /\ last.input.event = "adoption.needs_data"
       /\ last.pre.status = "healthy")
    => /\ LastPet.status = "healthy"
       /\ "needs_data" \in LastPet.flags

\* C4: a delayed automatic progression that finds the pet in a status other
\* than the one that scheduled it is dropped: the task emits nothing, it is
\* gone, and the pet stays as it was found.
C4_StaleProgressionDropped ==
    (last.op = "delayed_emit" /\ last.pre.status # last.expected)
    => /\ last.outcome = "skipped"
       /\ last.emitted = << >>
       /\ LastPet = last.pre
       /\ \A task \in timers :
             ~(task.petId = last.input.petId /\ task.current_status = last.expected)

\* C4 witness: the task scheduled for a healthy pet ran after the pet had
\* become ill and was skipped.
C4_Witness ==
    /\ last.op = "delayed_emit"
    /\ last.expected = "healthy"
    /\ last.pre.status = "ill"
    /\ last.outcome = "skipped"

\* C5: a pet that carries needs_data does not reach available: a lifecycle
\* attempt (agent event, staff request or automatic progression) on such a
\* pet that is not available leaves it not available.
C5_FlagBlocksAvailable ==
    (Lifecycle /\ "needs_data" \in last.pre.flags /\ last.pre.status # "available")
    => LastPet.status # "available"

\* C6: the status of a stored pet changes only in a step of the lifecycle
\* handler that applied a rule of TRANSITION_RULES leading to the new status;
\* the feeding-reminder job, the update and the delete write no status.
C6_OnlyOrchestratorWritesStatus ==
    [][\A pid \in DOMAIN store :
          (pid \in DOMAIN store' /\ store'[pid].status # store[pid].status)
          => /\ last'.op = "lifecycle"
             /\ last'.input.petId = pid
             /\ last'.outcome = "applied"
             /\ TRANSITION_RULES[last'.rule].to = store'[pid].status
             /\ store[pid].status \in TRANSITION_RULES[last'.rule].from]_vars

\* C7: the event of a rule without flag action, delivered a second time
\* right after the delivery that applied it, is a no-op (not rejected) and
\* notifies no second applied transition.
C7_ReplayIsNoOp ==
    (Lifecycle /\ last.replayOf = "applied")
    => /\ last.outcome = "noop"
       /\ last.emitted = << >>

\* The attempt matched a rule whose target is the status the pet is in,
\* without flag action, and whose guards hold.
InTargetAlready ==
    /\ Lifecycle
    /\ last.rule # 0
    /\ TRANSITION_RULES[last.rule].to = last.pre.status
    /\ TRANSITION_RULES[last.rule].flagAction = NoFlagAction
    /\ FirstFailing(TRANSITION_RULES[last.rule], last.pre) = 0

\* C8: when the matched rule's target is the pet's current status and the
\* rule has no flag action, the handler does nothing: the stored pet
\* (status, flags, updatedAt) is unchanged, nothing is emitted and no
\* automatic progression is scheduled.
C8_NoOpFrame ==
    InTargetAlready
    => /\ last.outcome = "noop"
       /\ LastPet = last.pre
       /\ last.emitted = << >>
       /\ last.scheduled = {}
       /\ ~last.checked

\* C8 witness: health.no_treatment_needed reached a pet that is healthy.
C8_Witness ==
    /\ InTargetAlready
    /\ last.input.event = "health.no_treatment_needed"
    /\ last.pre.status = "healthy"
    /\ last.outcome = "noop"

\* The notifications of the outcome among the emitted messages.
OutcomeNotifications(emitted) ==
    {i \in 1..Len(emitted) :
        emitted[i].topic \in {"py.lifecycle.transition.rejected",
                              "py.lifecycle.transition.completed"}}

\* C9: every attempt on an existing pet publishes exactly one notification
\* of its outcome, be it applied, rejected or no-op.
C9_OneNotification ==
    Lifecycle => Cardinality(OutcomeNotifications(last.emitted)) = 1

\* C10: check_automatic_progressions is invoked after every transition
\* the handler applies, the rules with a flag action included, and never
\* after a rejected or no-op attempt.
C10_CheckAfterApplied ==
    Lifecycle
    => last.checked =
          /\ last.rule # 0
          /\ FirstFailing(TRANSITION_RULES[last.rule], last.pre) = 0
          /\ ~(/\ TRANSITION_RULES[last.rule].to = last.pre.status
               /\ TRANSITION_RULES[last.rule].flagAction = NoFlagAction)

\* The rules the handler's test accepts for the attempt of the last step.
MatchingRules ==
    {i \in 1..Len(TRANSITION_RULES) :
        RuleMatches(TRANSITION_RULES[i], last.pre, last.input.event,
                    last.input.requestedStatus)}

\* C11: the transition table is deterministic: for every pet status, every
\* event type and, for status.update.requested, every requested target
\* status, at most one rule of TRANSITION_RULES matches.
C11_AtMostOneRule ==
    (/\ Lifecycle
     /\ last.input.event = "status.update.requested"
           => last.input.requestedStatus # None)
    => Cardinality(MatchingRules) <= 1

\* C11 witness: a request healthy -> available matched exactly one rule.
C11_Witness ==
    /\ Lifecycle
    /\ last.input.event = "status.update.requested"
    /\ last.input.requestedStatus = "available"
    /\ last.pre.status = "healthy"
    /\ Cardinality(MatchingRules) = 1

\* The candidates of the reference selection, in declaration order: the
\* event is the rule's, the status is in its from-set and, when a requested
\* status is supplied, the target is the requested status.
Candidates(status, event_type, requested_status) ==
    LET Fits(i) == /\ TRANSITION_RULES[i].event = event_type
                   /\ status \in TRANSITION_RULES[i].from
                   /\ requested_status # None
                         => TRANSITION_RULES[i].to = requested_status
    IN SelectSeq([i \in 1..Len(TRANSITION_RULES) |-> i], Fits)

FirstFailingOf(guards, pet) ==
    LET bad == {k \in 1..Len(guards) : ~GuardHolds(guards[k], pet)}
    IN IF bad = {} THEN 0 ELSE CHOOSE k \in bad : \A j \in bad : k <= j

\* C13: check_guards goes through the guard names in list order on the
\* snapshot it was passed (whatever the store holds by then), stops at the
\* first failing guard and returns that guard's reason; an unknown name
\* fails with "Unknown guard: <name>"; it passes only if every guard passes.
C13_GuardsInOrderOnSnapshot ==
    guardrun.ran
    => LET k == FirstFailingOf(guardrun.guards, guardrun.pet) IN
       /\ guardrun.result.passed = (k = 0)
       /\ guardrun.result.passed
             = \A j \in 1..Len(guardrun.guards) :
                  GuardHolds(guardrun.guards[j], guardrun.pet)
       /\ k # 0 => guardrun.result.reason
                      = GuardReason(guardrun.guards[k], guardrun.pet)
       /\ (k # 0 /\ guardrun.guards[k] \notin {"must_be_healthy", "no_needs_data_flag"})
             => guardrun.result.reason = "Unknown guard: " \o guardrun.guards[k]

\* C13 witness: two guards fail on a snapshot the store has moved away
\* from, and the reason returned is that of the first.
C13_Witness ==
    /\ guardrun.ran
    /\ guardrun.guards = << "must_be_healthy", "no_needs_data_flag" >>
    /\ guardrun.pet.status = "ill"
    /\ "needs_data" \in guardrun.pet.flags
    /\ get(store, "1").status = "healthy"
    /\ guardrun.result = [passed |-> FALSE,
                          reason |-> "Pet must be healthy (current: ill)"]

\* The calls that have ended.
Ended(ops) == {p \in Procs : frames[p].pc = "done" /\ frames[p].op \in ops}

\* C14: an attempt for an id that is not in the store fails as not found
\* and has no effect: the pet handler returns without creating a record,
\* emitting or scheduling anything; transition_job and update_job_state
\* raise ValueError without a write to Redis or a publish.
C14_NotFoundNoEffect ==
    /\ (last.op = "lifecycle" /\ last.pre = NoPet)
       => /\ last.outcome = "not_found"
          /\ last.emitted = << >>
          /\ last.scheduled = {}
          /\ last.input.petId \notin DOMAIN store
          /\ inflight = {} /\ timers = {}
    /\ \A p \in Ended({"transition_job", "update_job_state"}) :
          (frames[p].seen = None \/ frames[p].job_id \notin DOMAIN jobs)
          => /\ frames[p].outcome = "ValueError"
             /\ frames[p].wrote = 0
             /\ frames[p].pubs = 0
    /\ (jobs = << >> /\ \A p \in Procs : frames[p].op # "create_scoring_job")
       => channel = << >> /\ persisted = << >>

\* C14 witness: transition_job and update_job_state have raised for a job
\* id Redis does not hold, and the pet handler has run for a pet id the
\* store does not hold.
C14_Witness ==
    /\ last.op = "lifecycle" /\ last.pre = NoPet /\ last.outcome = "not_found"
    /\ jobs = << >>
    /\ frames["p1"].op = "transition_job" /\ frames["p1"].outcome = "ValueError"
    /\ frames["p2"].op = "update_job_state" /\ frames["p2"].outcome = "ValueError"

\* The edges of the job state machine.
Edges ==
    {<<"pending", "processing">>, <<"pending", "failed">>,
     <<"processing", "scored">>, <<"processing", "failed">>,
     <<"scored", "enriched">>, <<"scored", "completed">>,
     <<"enriched", "completed">>, <<"enriched", "failed">>}

\* C15: transition_job, for the state it finds the job in and the state it
\* is asked for, saves the new state exactly if the pair is an edge of the
\* table; for any other pair it raises ValueError, having written nothing
\* and published no event.
C15_OnlyAllowedTransitions ==
    \A p \in Ended({"transition_job"}) :
       LET f == frames[p] IN
       f.seen # None
       => IF <<f.seen, f.state>> \in Edges
          THEN /\ f.wrote = 1
               /\ f.outcome \in {"returned", "ConnectionError"}
               /\ f.pubs = IF f.outcome = "returned" THEN 1 ELSE 0
          ELSE /\ f.outcome = "ValueError"
               /\ f.wrote = 0
               /\ f.pubs = 0

\* C15 witness: transition_job was asked to take a completed job back to
\* processing and raised; the job is still completed.
C15_Witness ==
    /\ frames["p1"].op = "transition_job" /\ frames["p1"].pc = "done"
    /\ frames["p1"].seen = "completed" /\ frames["p1"].state = "processing"
    /\ frames["p1"].outcome = "ValueError"
    /\ get_job_status(jobs, "j1").state = "completed"
    /\ channel = << >>

\* C16: under any interleaving of transition_job, enrich_job_results and
\* record_error calls on one job, every change these calls make to the
\* job's saved state follows an edge of the table (so no accepted change
\* is undone by a write of a stale copy).
C16_WritesFollowEdges ==
    [][\A p \in Procs, job_id \in DOMAIN jobs :
          (/\ frames[p].op \in {"transition_job", "enrich_job_results", "record_error"}
           /\ frames'[p].wrote = frames[p].wrote + 1
           /\ job_id \in DOMAIN jobs'
           /\ jobs'[job_id].state # jobs[job_id].state)
          => <<jobs[job_id].state, jobs'[job_id].state>> \in Edges]_vars

NoDuplicates(seq) == \A i, k \in 1..Len(seq) : seq[i] = seq[k] => i = k

\* C17: process_job run for a job that it finds completed or failed leaves
\* the job's saved state as it is at every point, appends no duplicate to
\* steps_completed and publishes no job_state_changed event.
C17_RedeliveryChangesNothing ==
    \A p \in Procs :
       LET f == frames[p] IN
       (f.op = "process_job" /\ f.seen \in {"completed", "failed"})
       => /\ get_job_status(jobs, f.job_id).state = f.seen
          /\ NoDuplicates(get_job_status(jobs, f.job_id).steps_completed)
          /\ f.pubs = 0

\* The states of the job_state_changed events among the events.
StateChanges(events) ==
    LET IsChange(ev) == ev.type = "job_state_changed"
        changes == SelectSeq(events, IsChange)
    IN [i \in 1..Len(changes) |-> changes[i].state]

IsPrefix(a, b) == Len(a) <= Len(b) /\ a = SubSeq(b, 1, Len(a))

\* C18: the job_state_changed events of a job are published in the order
\* in which the state changes were saved: a client that was streaming the
\* job before it went scored -> enriched -> completed receives the two
\* events, enriched before completed, and no others.
C18_PublishedInPersistedOrder ==
    (/\ subscriber.connected /\ subscriber.from = 0
     /\ persisted = << "enriched", "completed" >>)
    => /\ IsPrefix(StateChanges(event_generator), persisted)
       /\ (\A p \in Procs : frames[p].pc = "done" /\ frames[p].outcome = "returned")
             => StateChanges(event_generator) = persisted

\* The entries a job record keeps of what happened to it: the completed
\* steps and the recorded errors.
HistoryLength(job) == Len(job.steps_completed) + job.errors

\* C19: every transition attempt appends one entry to the job's history
\* and leaves the entries that are there: a saved state change comes with
\* exactly one new entry after the old ones.
C19_EveryAttemptLogged ==
    [][\A job_id \in DOMAIN jobs :
          (job_id \in DOMAIN jobs' /\ Len(persisted') = Len(persisted) + 1)
          => /\ HistoryLength(jobs'[job_id]) = HistoryLength(jobs[job_id]) + 1
             /\ IsPrefix(jobs[job_id].steps_completed,
                         jobs'[job_id].steps_completed)]_vars

\* C20: a failure to publish is isolated: once update_job_state has saved
\* the new state, the state stays saved and the call returns the job to
\* its caller, who sees no exception.
C20_PublishFailureIsolated ==
    \A p \in Ended({"update_job_state"}) :
       frames[p].wrote = 1
       => /\ frames[p].outcome = "returned"
          /\ frames[p].job_id \in DOMAIN jobs


\* The update_status calls that have returned the pet they saved.
Saved == {p \in StoreProcs : storecalls[p].pc = "done" /\ storecalls[p].returned # NoPet}

\* C21: two update_status calls on different pets that run at the same
\* time are both in the file when both have returned: neither update is
\* lost, however their reads and writes of the file interleave.
C21_NoLostUpdate ==
    \A p \in Saved, q \in Saved :
       storecalls[p].pid # storecalls[q].pid
       => get(store, storecalls[p].pid).status = storecalls[p].status

\* The events a stream has yielded as data lines, in the order it did.
Yielded(out) ==
    LET IsData(item) == item.line = "data"
        lines == SelectSeq(out, IsData)
    IN [i \in 1..Len(lines) |-> lines[i].event]

\* The events published for the key of stream s since it subscribed.
PublishedFor(s) ==
    LET ForKey(event) == event.workflow_id = streams[s].workflow_id
    IN SelectSeq(SubSeq(published, streams[s].from + 1, Len(published)), ForKey)

Subscribed == {s \in Streams : streams[s].pc = "waiting"}

\* C22: publish(K, e) puts e once in every queue subscribed to K and in no
\* other: what a subscribed stream has yielded followed by what waits in
\* its queue is exactly the events published for its key since it
\* subscribed, each once and in publish order; a stream that has ended has
\* yielded and holds a prefix of them.
C22_ExactlyOncePerSubscriber ==
    \A s \in Streams :
       /\ streams[s].pc = "waiting"
             => Yielded(streams[s].out) \o queues[s] = PublishedFor(s)
       /\ streams[s].pc = "closed"
             => IsPrefix(Yielded(streams[s].out) \o queues[s], PublishedFor(s))

C22_Witness ==
    \E s \in Subscribed, t \in Subscribed :
       /\ streams[s].workflow_id # streams[t].workflow_id
       /\ Len(published) = MaxPublished
       /\ Len(Yielded(streams[s].out)) > 0
       /\ Len(Yielded(streams[t].out)) > 0
       /\ \E i \in 1..Len(published) : i <= streams[s].from

\* C23: a subscriber that does not read loses events instead of piling
\* them up: however many events are published, its queue holds fewer than
\* all of them.
C23_SlowSubscriberDrops ==
    \A s \in Subscribed : Len(queues[s]) < MaxPublished

\* C24: a subscriber stream that gets no event for the keepalive period
\* yields a keepalive comment: the client of /stream/scoring/{job_id} that
\* has waited a period without a message has been sent one.
C24_KeepaliveWhenIdle ==
    (subscriber.connected /\ waited > 0)
    => \E i \in 1..Len(event_generator) : event_generator[i].type = "keepalive"

\* C25: when a stream ends its queue is off the bus, and unsubscribe for a
\* queue that is not on the list of the key (removed before, or the key
\* has no subscribers) changes nothing and raises nothing.
C25_RemovalIdempotent ==
    /\ \A s \in Streams :
          streams[s].pc = "closed"
          => \A workflow_id \in DOMAIN subscribers : ~IsIn(subscribers[workflow_id], s)
    /\ (lastunsub.queue # None /\ ~lastunsub.present)
          => (~lastunsub.changed /\ lastunsub.raised = None)

C25_Witness ==
    /\ lastunsub.queue # None /\ ~lastunsub.present
    /\ streams[lastunsub.queue].pc = "closed"
    /\ streams[lastunsub.queue].workflow_id = lastunsub.workflow_id
    /\ \E s \in Subscribed : streams[s].workflow_id = lastunsub.workflow_id

\* A call of unsubscribe for a key that has no list.
C25_WitnessNoKey ==
    /\ lastunsub.queue # None
    /\ lastunsub.workflow_id \notin DOMAIN subscribers

\* Queue t is on the list of the key in subs.
OnList(subs, workflow_id, t) == IsIn(subscribed(subs, workflow_id), t)

\* C26: a subscriber that disconnects takes only its own queue off the
\* bus: every other stream, of the same key or of another, keeps its queue
\* with the events that wait in it and stays on the list it is on.
C26_DisconnectFrame ==
    [][\A s \in Streams :
          (streams[s].pc = "waiting" /\ streams'[s].pc = "closed")
          => \A t \in Streams \ {s} :
                /\ streams'[t] = streams[t]
                /\ t \in DOMAIN queues => queues'[t] = queues[t]
                /\ \A workflow_id \in WorkflowIds :
                      OnList(subscribers', workflow_id, t)
                      <=> OnList(subscribers, workflow_id, t)]_vars

C26_Witness ==
    /\ lastunsub.present
    /\ streams[lastunsub.queue].pc = "closed"
    /\ \E t \in Subscribed :
          /\ streams[t].workflow_id = lastunsub.workflow_id
          /\ Len(queues[t]) = MaxPublished
          /\ OnList(subscribers, lastunsub.workflow_id, t)

\* The workflow state update_workflow_status published, as an event.
StateEvent(state) == [workflow_id |-> state.workflow_id, status |-> state.status]

\* The changes of status made to the workflow of stream s since it subscribed.
ChangesFor(s) ==
    {i \in (streams[s].since + 1)..Len(wfchannel) :
        /\ wfchannel[i].workflow_id = streams[s].workflow_id
        /\ wfchannel[i].status # wfchannel[i].was}

\* C27: a client that is streaming a workflow when update_workflow_status
\* changes its status is, unless it goes away, eventually sent the updated
\* state as a data event.
C27_UpdateReachesStream ==
    \A s \in Streams :
       (streams[s].pc = "waiting" /\ ChangesFor(s) # {})
       ~> \/ streams[s].pc = "closed"
          \/ \E i \in ChangesFor(s), k \in 1..Len(streams[s].out) :
                streams[s].out[k] = Data(StateEvent(wfchannel[i]))

\* What was published on scoring_workflow since the client subscribed.
SinceSubscribed == SubSeq(channel, subscriber.from + 1, Len(channel))

\* C28: the stream of a job yields the connected event first and then only
\* events whose data.job_id is the job id asked for, never an event
\* published for another job.
C28_OnlyOwnJobEvents ==
    subscriber.connected
    => /\ event_generator[1] = Event("connected", subscriber.job_id, None)
       /\ \A i \in 2..Len(event_generator) :
             /\ event_generator[i].job_id = subscriber.job_id
             /\ event_generator[i].type # "connected"

C28_Witness ==
    /\ subscriber.connected
    /\ Len(event_generator) > 1
    /\ \E i \in 1..Len(SinceSubscribed) : SinceSubscribed[i].job_id # subscriber.job_id

\* C29: create_scoring_job stores under its job id a job that is pending
\* with no steps completed and no errors, publishes nothing before that,
\* then publishes one job_created event that carries the job, and has
\* stored once and published once when it returns.
C29_StoredThenAnnounced ==
    [][\A p \in Procs :
          LET f == frames[p]
              g == frames'[p]
          IN (f.op = "create_scoring_job" /\ g.op = "create_scoring_job"
              /\ f.pc # "done")
             => /\ g.wrote = f.wrote + 1
                   => /\ jobs'[f.job_id] = JobRecord("pending", << >>, {}, 0)
                      /\ f.wrote = 0 /\ g.pubs = 0
                      /\ channel' = channel
                /\ g.pubs = f.pubs + 1
                   => /\ f.wrote = 1 /\ f.pubs = 0
                      /\ f.job_id \in DOMAIN jobs
                      /\ channel' = Append(channel,
                                           Event("job_created", f.job_id, "pending"))
                /\ (g.pc = "done" /\ g.outcome = "returned")
                   => (g.wrote = 1 /\ g.pubs = 1)]_vars

C29_Witness ==
    \E p \in Ended({"create_scoring_job"}) :
       /\ frames[p].outcome = "returned"
       /\ get_job_status(jobs, frames[p].job_id).state = "pending"
       /\ \E i \in 1..Len(channel) :
             channel[i] = Event("job_created", frames[p].job_id, "pending")

\* C30: for an integer composite of 0..100 the band is a multiple of 10
\* from 10 to 90, it is no lower than the band of any lower composite, and
\* 0 gives 10, 50 gives 50 and 100 gives 90.
C30_BandCalibration ==
    band # << >>
    => /\ band[1] \in {10 * k : k \in 1..9}
       /\ \A lower \in Composites :
             lower <= composite => _calibrate_to_band(lower) <= band[1]
       /\ composite = 0 => band[1] = 10
       /\ composite = 50 => band[1] = 50
       /\ composite = 100 => band[1] = 90

C30_Witness == band # << >> /\ composite = 50 /\ band[1] = 50

\* The status changes that have a follow-up action event.
FollowUps ==
    { <<"ill", "under_treatment">>, <<"healthy", "available">>,
      <<"under_treatment", "recovered">>, <<"recovered", "healthy">> }

\* C31: after an applied transition with a follow-up action the handler
\* has emitted the completed notification and then, once, the follow-up
\* event of the status change.
C31_FollowUpEmitted ==
    (/\ Lifecycle
     /\ last.outcome = "applied"
     /\ <<last.pre.status, TRANSITION_RULES[last.rule].to>> \in FollowUps)
    => Topics(last.emitted)
          = << "py.lifecycle.transition.completed",
               NextActionTopic(TRANSITION_RULES[last.rule].to, last.pre.status) >>

\* The handler has just applied health.treatment_required to the pet, which
\* was healthy or in quarantine.
TreatmentRequiredApplied(pid) ==
    /\ Lifecycle
    /\ last.input.petId = pid
    /\ last.input.event = "health.treatment_required"
    /\ last.outcome = "applied"
    /\ last.pre.status \in {"healthy", "in_quarantine"}

\* C32: once health.treatment_required has been applied to a healthy or
\* in_quarantine pet and no other event for the pet comes in, the pet is ill
\* at that point and, with messages delivered and delayed tasks run, it is
\* under_treatment later on.
C32_TreatmentRequiredReachesTreatment ==
    \A pid \in PetIds :
       /\ [](TreatmentRequiredApplied(pid) => get(store, pid).status = "ill")
       /\ TreatmentRequiredApplied(pid)
             ~> (get(store, pid).status = "under_treatment")

C32_Witness ==
    /\ Len(chain) = 2
    /\ chain[1].event = "health.treatment_required"
    /\ chain[1].from = "in_quarantine" /\ chain[1].to = "ill"
    /\ chain[2].automatic
    /\ chain[2].from = "ill" /\ chain[2].to = "under_treatment"
    /\ \E pid \in PetIds : get(store, pid).status = "under_treatment"

\* The handler has just handled the message of a delayed task and found the
\* pet in the status the task was created for.
ProgressionHandled ==
    /\ Lifecycle
    /\ last.input.automatic
    /\ last.pre # NoPet
    /\ last.pre.status \in DOMAIN automatic_progressions
    /\ last.input.requestedStatus = automatic_progressions[last.pre.status]

\* C37: every entry of the automatic-progression map has a rule for
\* status.update.requested from its status to its target, and the message of
\* a delayed task that finds the pet still in that status is applied, not
\* rejected.
C37_ProgressionsAreLegal ==
    /\ \A status \in DOMAIN automatic_progressions :
          SomeRuleFor(status, "status.update.requested",
                      automatic_progressions[status])
    /\ ProgressionHandled => last.outcome = "applied"

C37_Witness ==
    /\ ProgressionHandled
    /\ last.pre.status = "recovered"
    /\ last.outcome = "applied"
    /\ \E pid \in PetIds : get(store, pid).status = "healthy"

\* The transitions applied on messages of delayed tasks, in order.
Automatic(applied) == SelectSeq(applied, LAMBDA t : t.automatic)

\* C38: with no event from outside coming in, the automatic progressions
\* apply at most two transitions, each an entry of the map and none to a
\* status an earlier one left, and in the end no message is queued and no
\* delayed task is left.
C38_ProgressionTerminates ==
    /\ [](LET auto == Automatic(chain) IN
          /\ Len(auto) <= 2
          /\ \A i \in 1..Len(auto) :
                <<auto[i].from, auto[i].to>> \in
                   {<<"recovered", "healthy">>, <<"healthy", "available">>,
                    <<"ill", "under_treatment">>}
          /\ \A i, j \in 1..Len(auto) : i < j => auto[j].to # auto[i].from)
    /\ <>[](inflight = {} /\ timers = {})

C38_Witness ==
    /\ Len(chain) = 3
    /\ ~chain[1].automatic /\ chain[1].to = "recovered"
    /\ chain[2].automatic /\ chain[2].from = "recovered" /\ chain[2].to = "healthy"
    /\ chain[3].automatic /\ chain[3].from = "healthy" /\ chain[3].to = "available"
    /\ inflight = {} /\ timers = {}

\* C33: a step of the update-pet handler leaves the status of every pet as it
\* was.  For a body whose status differs from the pet's, whatever else the
\* body carries, the store is left as it was: a valid status gets 202 and
\* one py.pet.status.update.requested naming it, any other gets 400 and no
\* event.  The patch of the other path has no status.
C33_UpdateNeverWritesStatus ==
    [][\A pid \in PetIds, b \in UpdateBodies :
          (UpdatePet(pid, b) /\ get(store, pid) # NoPet) =>
             /\ get(store', pid).status = get(store, pid).status
             /\ (b.status # None /\ b.status # get(store, pid).status) =>
                   /\ store' = store
                   /\ IF b.status \in Statuses
                      THEN /\ last'.outcome = "202"
                           /\ Topics(last'.emitted) = << "py.pet.status.update.requested" >>
                           /\ last'.emitted[1].requestedStatus = b.status
                      ELSE /\ last'.outcome = "400"
                           /\ last'.emitted = << >>
                           /\ inflight' = inflight
             /\ last'.outcome = "200" => PatchOf(b).status = None]_vars

C33_Witness ==
    /\ last.op = "update_pet"
    /\ last.outcome = "202"
    /\ LastPet.status = "healthy"
    /\ \E m \in inflight : m.requestedStatus = "ill" /\ ~m.automatic

\* The pets the file had when the reaper scanned it and has no more.
Purged == DOMAIN reaper.found \ DOMAIN store

\* C34: in a run of the reaper, a pet that is gone from the file was deleted
\* with purgeAt not after the time of the scan when the scan read it; a pet
\* that was in another status or had a later purgeAt then is still in the
\* file; and the purgedCount the run reports is the number of pets gone.
C34_ReaperPurgesOnlyReady ==
    reaper.pc # "idle" =>
       /\ \A pid \in Purged :
             /\ reaper.found[pid].status = "deleted"
             /\ purgeAt(reaper.found[pid]) <= reaper.scanned_at
       /\ \A pid \in DOMAIN reaper.found :
             (\/ reaper.found[pid].status # "deleted"
              \/ purgeAt(reaper.found[pid]) > reaper.scanned_at)
                => pid \in DOMAIN store
       /\ reaper.pc = "done" => reaper.purgedCount = Cardinality(Purged)

C34_Witness ==
    /\ reaper.pc = "done"
    /\ reaper.purgedCount = 1
    /\ Cardinality(Purged) = 1
    /\ \E pid \in DOMAIN store :
          /\ pid \in DOMAIN reaper.found
          /\ reaper.found[pid].status = "deleted"
          /\ purgeAt(reaper.found[pid]) > reaper.scanned_at

\* C35: when the handler gets to update_status and the pet it loaded is no
\* longer in the file, the run ends there: it emits nothing (no
\* py.lifecycle.transition.completed, no follow-up event), writes nothing
\* (no flag action), and creates no delayed task.
C35_PersistFailureAborts ==
    [][(/\ handling.pc = "write"
        /\ handling' = NoHandling
        /\ get(store, handling.input_data.petId) = NoPet)
         => /\ last'.op = "lifecycle"
            /\ last'.input = handling.input_data
            /\ last'.emitted = << >>
            /\ last'.scheduled = {}
            /\ ~last'.checked
            /\ timers' = timers
            /\ inflight' = inflight
            /\ store' = store]_vars

C35_Witness ==
    /\ Lifecycle
    /\ last.outcome = "not_persisted"
    /\ last.pre.status = "in_quarantine"
    /\ LastPet = NoPet
    /\ handling = NoHandling

\* How many of the events are job_state_changed for this job and state.
Announced(events, job_id, state) ==
    Len(SelectSeq(events, LAMBDA ev : ev = Event("job_state_changed", job_id, state)))

\* How many of the saves were of this state.
SavedAs(saves, state) == Len(SelectSeq(saves, LAMBDA st : st = state))

C39_ProcessJobEndsTerminal ==
    LET f == frames["p1"] IN
    (/\ f.op = "process_job"
     /\ f.pc = "done"
     /\ f.seen = "processing"
     /\ frames["p2"] = IdleFrame)
       => /\ f.outcome \in {"returned", "error_result"}
          /\ f.outcome = "returned"
                => get_job_status(jobs, f.job_id).state = "completed"
          /\ f.outcome = "error_result"
                => get_job_status(jobs, f.job_id).state = "failed"

\* C40: a worker job is on the queue only for a job that was pending and has
\* been moved to processing by the request, and whatever enqueue requests are
\* made for a job, at most one worker job is enqueued for it.
C40_EnqueuedAtMostOnce ==
    /\ scoring_queue # << >> => "processing" \in {persisted[i] : i \in 1..Len(persisted)}
    /\ \A p \in Procs :
          frames[p].pc = "q_enqueue" => frames[p].seen = "pending" /\ frames[p].wrote = 1
    /\ \A job_id \in JobIds :
          Len(SelectSeq(scoring_queue, LAMBDA id : id = job_id)) <= 1

====
